---- MODULE Spec2Model ----
(***************************************************************************)
(* Model of the Salus iT600 gateway client                                 *)
(* (custom_components/salus/gateway.py, class IT600Gateway).               *)
(*                                                                         *)
(* The client runs on one asyncio event loop.  A coroutine runs without    *)
(* interruption from one suspension point (await) to the next, so every    *)
(* action below is the code executed between two suspension points of one  *)
(* host task.  The loop of poll_status is cut once more at the top of each *)
(* iteration, which only adds interleavings.                               *)
(***************************************************************************)
EXTENDS Integers, Sequences, FiniteSets, TLC

\* ------------------------------------------------------------------------
\*  Universe of the model
\* ------------------------------------------------------------------------

None == "None"

\* Host tasks that call into the one client instance.
Tasks == {"t1", "t2"}

\* Devices paired with the gateway (their data.UniID).
Devices == {"d1", "d2"}

\* Distinguishable readings a detail row can carry.
Vals == {"v1", "v2"}

\* Largest number of rows in a detail response.
MaxRows == 2

\* Largest number of entries in the bulk listing connect() scans.
MaxEntries == 3

\* A device id no stored map ever holds.
UnknownId == "nope"

\* ------------------------------------------------------------------------
\*  Device-state maps  (IT600Gateway.__init__)
\* ------------------------------------------------------------------------

\* The order in which poll_status walks the categories.
CategoryOrder ==
    <<"gateway", "climate", "binary_sensor", "sensor", "switch", "cover">>

DeviceCats == {"climate", "binary_sensor", "sensor", "switch", "cover"}

MapNames ==
    {"climate_devices", "battery_sensor_devices", "humidity_sensor_devices",
     "error_binary_sensor_devices", "binary_sensor_devices", "sensor_devices",
     "switch_devices", "energy_sensor_devices", "cover_devices"}

\* The maps a category's refresh routine assigns.
CategoryMaps(c) ==
    CASE c = "climate" ->
            {"climate_devices", "battery_sensor_devices",
             "humidity_sensor_devices", "error_binary_sensor_devices"}
      [] c = "binary_sensor" -> {"binary_sensor_devices"}
      [] c = "sensor" -> {"sensor_devices"}
      [] c = "switch" -> {"switch_devices", "energy_sensor_devices"}
      [] c = "cover" -> {"cover_devices"}
      [] OTHER -> {}

EmptyMap == [k \in {} |-> [unique_id |-> None]]

Put(m, k, r) == [y \in (DOMAIN m) \cup {k} |-> IF y = k THEN r ELSE m[y]]

\* A device record (models.py): what the model keeps of it.
Device(uid, state, parent) ==
    [unique_id |-> uid, state |-> state, parent_unique_id |-> parent]

\* Python's None where a device record is expected.
NoDevice == Device(None, None, None)

\* dict.get: the record stored under a key, or None.
Get(m, k) == IF k \in DOMAIN m THEN m[k] ELSE NoDevice

EmptyMaps == [n \in MapNames |-> EmptyMap]

\* ------------------------------------------------------------------------
\*  Detail rows and the per-category decoders
\* ------------------------------------------------------------------------

\* A row of a detail response.  uid is data.UniID (None: absent); shape says
\* how the row decodes: "ok" (a record is built), "skip" (the decoder's
\* `continue`: a required field is absent), "raise" (the row's try block
\* raises before anything is stored in the scratch maps), "abort" (the id
\* extraction, which precedes the row's try block, raises: the row or its
\* data member is not a JSON object, or, in _refresh_switch_devices, the
\* data member has no Endpoint).
\* kids: the row carries the blocks from which the derived child records
\* are built.
Row(uid, shape, val, kids) ==
    [uid |-> uid, shape |-> shape, val |-> val, kids |-> kids]

NoIdRow == Row(None, "ok", "v1", FALSE)
AbortRow == Row(None, "abort", "v1", FALSE)

\* Rows a detail response for category c can hold when the gateway has the
\* devices devs in that category.  Every decodable row of a category with
\* derived records carries the blocks they are built from.
Rows(c, devs) ==
    {Row(d, "ok", v, c # "cover") : d \in devs, v \in Vals}
        \cup {Row(d, "raise", "v1", FALSE) : d \in devs}
        \cup {NoIdRow, AbortRow}

RowSeqs(c, devs) ==
    UNION {[1..n -> Rows(c, devs)] : n \in 0..MaxRows}

\* The scratch maps (`local`, `battery_local`, ...) after one decoded row.
\* _refresh_climate_devices: a row with kids is a Dialect A row (sIT600TH)
\* of a battery model with humidity; a row without is a Dialect B row.
DecodeClimateRow(local, ds) ==
    LET uid == ds.uid
        l1 == [local EXCEPT !.climate_devices =
                                Put(@, uid, Device(uid, ds.val, None))]
    IN  IF ~ds.kids THEN l1
        ELSE [l1 EXCEPT
                !.humidity_sensor_devices =
                    Put(@, uid \o "_humidity",
                        Device(uid \o "_humidity", ds.val, uid)),
                !.battery_sensor_devices =
                    Put(@, uid \o "_battery",
                        Device(uid \o "_battery", ds.val, uid)),
                !.error_binary_sensor_devices =
                    Put(Put(@, uid \o "_problem",
                            Device(uid \o "_problem", ds.val, uid)),
                        uid \o "_battery_error",
                        Device(uid \o "_battery_error", ds.val, uid))]

\* _refresh_binary_sensor_devices
DecodeBinarySensorRow(local, ds) ==
    LET uid == ds.uid
        l1 == [local EXCEPT !.binary_sensor_devices =
                                Put(@, uid, Device(uid, ds.val, None))]
    IN  IF ~ds.kids THEN l1
        ELSE [l1 EXCEPT !.binary_sensor_devices =
                            Put(@, uid \o "_low_battery",
                                Device(uid \o "_low_battery", ds.val, uid))]

\* _refresh_sensor_devices
DecodeSensorRow(local, ds) ==
    LET uid == ds.uid
        l1 == [local EXCEPT !.sensor_devices =
                                Put(@, uid \o "_temp",
                                    Device(uid \o "_temp", ds.val, None))]
    IN  IF ~ds.kids THEN l1
        ELSE [l1 EXCEPT !.sensor_devices =
                            Put(Put(@, uid \o "_humidity",
                                    Device(uid \o "_humidity", ds.val, uid)),
                                uid \o "_battery",
                                Device(uid \o "_battery", ds.val, uid))]

\* _refresh_switch_devices: the id is suffixed with the endpoint number.
DecodeSwitchRow(local, ds) ==
    LET uid == ds.uid \o "_1"
        l1 == [local EXCEPT !.switch_devices =
                                Put(@, uid, Device(uid, ds.val, None))]
    IN  IF ~ds.kids THEN l1
        ELSE [l1 EXCEPT !.energy_sensor_devices =
                            Put(Put(@, uid \o "_power",
                                    Device(uid \o "_power", ds.val, uid)),
                                uid \o "_energy",
                                Device(uid \o "_energy", ds.val, uid))]

\* _refresh_cover_devices
DecodeCoverRow(local, ds) ==
    [local EXCEPT !.cover_devices =
                      Put(@, ds.uid, Device(ds.uid, ds.val, None))]

DecodeRow(c, local, ds) ==
    CASE c = "climate" -> DecodeClimateRow(local, ds)
      [] c = "binary_sensor" -> DecodeBinarySensorRow(local, ds)
      [] c = "sensor" -> DecodeSensorRow(local, ds)
      [] c = "switch" -> DecodeSwitchRow(local, ds)
      [] c = "cover" -> DecodeCoverRow(local, ds)

\* The key under which the primary record of a row is stored, and its map.
PrimaryMap(c) ==
    CASE c = "climate" -> "climate_devices"
      [] c = "binary_sensor" -> "binary_sensor_devices"
      [] c = "sensor" -> "sensor_devices"
      [] c = "switch" -> "switch_devices"
      [] c = "cover" -> "cover_devices"

PrimaryKey(c, uid) ==
    CASE c = "sensor" -> uid \o "_temp"
      [] c = "switch" -> uid \o "_1"
      [] OTHER -> uid

\* Faulty variant of LiveAfterRow: the live map is written row by row in a
\* bulk poll too.
LiveAfterRowUnguarded(c, send_callback, live, ds) ==
    [live EXCEPT ![PrimaryMap(c)] =
                     Put(@, PrimaryKey(c, ds.uid),
                         Device(PrimaryKey(c, ds.uid), ds.val, None))]

\* `if send_callback: self._<category>_devices[device.unique_id] = device`:
\* the live map after one decoded row (_refresh_sensor_devices also writes
\* the humidity child).
LiveAfterRow(c, send_callback, live, ds) ==
    IF ~send_callback THEN live
    ELSE LET l1 == [live EXCEPT ![PrimaryMap(c)] =
                       Put(@, PrimaryKey(c, ds.uid),
                           Device(PrimaryKey(c, ds.uid), ds.val, None))]
         IN  IF c = "sensor" /\ ds.kids
             THEN [l1 EXCEPT !.sensor_devices =
                      Put(@, ds.uid \o "_humidity",
                          Device(ds.uid \o "_humidity", ds.val, ds.uid))]
             ELSE l1

\* `self._<category>_devices = local` (and the derived maps) after the loop.
AssignLocal(c, live, local) ==
    [n \in MapNames |-> IF n \in CategoryMaps(c) THEN local[n] ELSE live[n]]

\* The row loop of a refresh routine and the assignment that follows it.
\* raised: an exception left the routine (the assignment was not reached).
RECURSIVE RefreshLoop(_, _, _, _, _)
RefreshLoop(c, rows, send_callback, live, local) ==
    IF rows = <<>>
    THEN [maps |-> AssignLocal(c, live, local), raised |-> FALSE]
    ELSE LET ds == Head(rows) IN
         IF ds.shape = "abort"
         THEN [maps |-> live, raised |-> TRUE]
         ELSE IF ds.uid = None \/ ds.shape \in {"skip", "raise"}
         THEN RefreshLoop(c, Tail(rows), send_callback, live, local)
         ELSE RefreshLoop(c, Tail(rows), send_callback,
                          LiveAfterRow(c, send_callback, live, ds),
                          DecodeRow(c, local, ds))

\* _refresh_<category>_devices after its detail request has succeeded.
RefreshDevices(c, rows, send_callback, live) ==
    RefreshLoop(c, rows, send_callback, live, EmptyMaps)

\* Rows of the gateway category's detail response: the id is the MAC.
GatewayRows ==
    {Row("mac", "ok", "v1", FALSE), Row("mac", "raise", "v1", FALSE),
     NoIdRow, AbortRow}

GatewayRowSeqs == UNION {[1..n -> GatewayRows] : n \in 0..MaxRows}

\* _refresh_gateway_device after its detail request has succeeded: every
\* decoded row is assigned to self._gateway_device at once.
RECURSIVE RefreshGatewayLoop(_, _)
RefreshGatewayLoop(rows, gw) ==
    IF rows = <<>> THEN [gateway_device |-> gw, raised |-> FALSE]
    ELSE LET ds == Head(rows) IN
         IF ds.shape = "abort" THEN [gateway_device |-> gw, raised |-> TRUE]
         ELSE IF ds.uid = None \/ ds.shape = "raise"
         THEN RefreshGatewayLoop(Tail(rows), gw)
         ELSE RefreshGatewayLoop(Tail(rows), Device(ds.uid, ds.val, None))

\* ------------------------------------------------------------------------
\*  Exceptions  (exceptions.py and the handlers of _make_encrypted_request)
\* ------------------------------------------------------------------------

IT600Errors ==
    {"IT600CommandError", "IT600ConnectionError", "IT600AuthenticationError"}

\* What can be raised while session.post is awaited (RuntimeError: the
\* session is closed).
PostExceptions ==
    {"TimeoutError", "ClientConnectorError", "ServerDisconnectedError",
     "RuntimeError"}

\* What can be raised from resp.read() to the status test: the timeout, a
\* broken body, an undecryptable body (ValueError from the unpadder,
\* UnicodeDecodeError), a body that is no JSON, a JSON value that is no
\* object (AttributeError of result.get), a status other than "success".
ReadExceptions ==
    {"TimeoutError", "ClientPayloadError", "ValueError", "UnicodeDecodeError",
     "JSONDecodeError", "AttributeError", "IT600CommandError"}

\* Subclasses of Exception among the names used here; CancelledError is a
\* BaseException only.
Exceptions ==
    PostExceptions \cup ReadExceptions \cup IT600Errors \cup {"KeyError"}

\* Faulty variant of HandleRequestException: the final `except Exception`
\* clause is missing.
HandleRequestExceptionNoCatchAll(exc) ==
    IF exc = "TimeoutError" THEN "IT600ConnectionError"
    ELSE IF exc = "ClientConnectorError" THEN "IT600ConnectionError"
    ELSE exc

\* The except clauses of _make_encrypted_request, in order: the exception
\* that leaves the function when exc is raised inside its try block.
HandleRequestException(exc) ==
    IF exc = "TimeoutError" THEN "IT600ConnectionError"
    ELSE IF exc = "ClientConnectorError" THEN "IT600ConnectionError"
    ELSE IF exc \in IT600Errors THEN exc
    ELSE IF exc \in Exceptions THEN "IT600CommandError"
    ELSE exc


\* ------------------------------------------------------------------------
\*  Commands
\* ------------------------------------------------------------------------

CoverCommands == {"set_cover_position", "open_cover", "close_cover"}

SwitchCommands == {"turn_on_switch_device", "turn_off_switch_device"}

ClimateCommands ==
    {"set_climate_device_preset", "set_climate_device_mode",
     "set_climate_device_fan_mode", "set_climate_device_locked",
     "set_climate_device_temperature"}

Commands == CoverCommands \cup SwitchCommands \cup ClimateCommands

\* get_cover_device / get_switch_device / get_climate_device: the map a
\* command looks its device up in.
CommandMap(cmd) ==
    IF cmd \in CoverCommands THEN "cover_devices"
    ELSE IF cmd \in SwitchCommands THEN "switch_devices"
    ELSE "climate_devices"

\* Positions a caller may pass to set_cover_position.
Positions == {-1, 0, 100, 101}

\* The position a command passes to set_cover_position: open_cover passes
\* 100 and close_cover 0.  The other commands have none (written 0).
CommandPositions(cmd) ==
    CASE cmd = "set_cover_position" -> Positions
      [] cmd = "open_cover" -> {100}
      [] OTHER -> {0}

\* Device ids a command is called with: an id the map may hold, and one it
\* never holds.
CommandIds(cmd) ==
    IF cmd \in SwitchCommands THEN {"d1_1", UnknownId} ELSE {"d1", UnknownId}

\* Faulty variant of CommandOutcome: the device is not looked up.
CommandOutcomeNoLookup(cmd, device_id, position, live) ==
    IF cmd \in CoverCommands /\ ~(0 <= position /\ position <= 100)
    THEN "ValueError"
    ELSE "write"

\* Faulty variant of CommandOutcome: the position is checked after the
\* device has been looked up.
CommandOutcomeLookupFirst(cmd, device_id, position, live) ==
    IF Get(live[CommandMap(cmd)], device_id) = NoDevice THEN "return"
    ELSE IF cmd \in CoverCommands /\ ~(0 <= position /\ position <= 100)
    THEN "ValueError"
    ELSE "write"

\* A command up to its first suspension point: "ValueError" (the position
\* check of set_cover_position), "return" (device not found: log and
\* return), or "write" (the write request is made).
CommandOutcome(cmd, device_id, position, live) ==
    IF cmd \in CoverCommands /\ ~(0 <= position /\ position <= 100)
    THEN "ValueError"
    ELSE IF Get(live[CommandMap(cmd)], device_id) = NoDevice THEN "return"
    ELSE "write"

\* ------------------------------------------------------------------------
\*  State
\* ------------------------------------------------------------------------

VARIABLES
    devCat,          \* the category each paired device belongs to
    maps,            \* the device-state maps self._<name>
    gateway_device,  \* self._gateway_device
    lock_holder,     \* the task inside `async with self._lock`, or None
    lock_waiters,    \* tasks suspended in self._lock.acquire(), in order
    wire,            \* HTTP requests of the client now in flight
    pc,              \* where each task is suspended
    site,            \* the caller of the task's _make_encrypted_request
    idx,             \* poll_status: position in CategoryOrder
    call,            \* the operation the task is running
    result,          \* what the finished operation returned or raised
    logged,          \* "Failed to poll %s devices" logged by the task's last step
    eval,            \* a computation followed on its own: input, then output
    session,         \* self._session, self._close_session, sessions closed
    listeners,       \* self._<category>_update_callbacks, in registration order
    notified,        \* the listener invocations made so far, in order
    push,            \* a refresh routine run with send_callback=True
    setup,           \* async_setup_gateway_entry of the host
    flow,            \* async_step_user of the config flow
    closes,          \* calls of gateway.close() made by the host routines
    polls            \* the bulk listing each poll holds; the order of arrival

vars ==
    <<devCat, maps, gateway_device, lock_holder, lock_waiters, wire, pc, site,
      idx, call, result, logged, eval, session, listeners, notified, push,
      setup, flow, closes, polls>>

\* The host routines around the client.
hosted == <<setup, flow, closes, polls>>

\* The listeners and the refresh that notifies them.
pushed == <<listeners, notified, push>>

\* What no operation of the client changes (the host registers no listener).
env == <<devCat, eval, pushed, hosted>>

store == <<maps, gateway_device>>

network == <<lock_holder, lock_waiters, wire>>

NoCall == [op |-> None, device_id |-> None, position |-> 0,
           send_callback |-> FALSE]

OpCall(op, device_id, position, send_callback) ==
    [op |-> op, device_id |-> device_id, position |-> position,
     send_callback |-> send_callback]

\* A parsed detail response: its "id" member, when it has one.
Response(has_id, rows) == [has_id |-> has_id, id |-> rows]

\* _LOGGER.exception("Failed to poll %s devices", label) with the exception.
Log(label, exc) == [label |-> label, exc |-> exc]

NoLog == Log(None, None)

\* The client's session: ref is self._session (None, the session the host
\* supplied, or the one the client created), owned is self._close_session,
\* closed holds the sessions the client has closed.
Session(ref, owned, closed) == [ref |-> ref, owned |-> owned, closed |-> closed]

\* `if self._session is None: self._session = aiohttp.ClientSession();
\* self._close_session = True` of connect() and _make_encrypted_request.
SessionForRequest(sess) ==
    IF sess.ref = None THEN Session("own", TRUE, sess.closed) ELSE sess

\* Faulty variant of SessionAfterClose: the session is closed whoever owns
\* it.
SessionAfterCloseAny(sess) ==
    IF sess.ref # None THEN [sess EXCEPT !.closed = @ \cup {sess.ref}]
    ELSE sess

\* close(): `if self._session and self._close_session:
\* await self._session.close()`.
SessionAfterClose(sess) ==
    IF sess.ref # None /\ sess.owned
    THEN [sess EXCEPT !.closed = @ \cup {sess.ref}]
    ELSE sess

\* The gateways the model is run against: both devices are of one category.
Topologies == {[d \in Devices |-> c] : c \in DeviceCats}

\* No computation is followed on its own.
NoEval == [fn |-> None]

\* No refresh routine is run with send_callback=True.
NoPush ==
    [c |-> None, arg |-> <<>>, rows |-> <<>>, local |-> EmptyMaps, cb |-> 0,
     id |-> None, val |-> None, child |-> FALSE, done |-> FALSE]

\* async_setup_gateway_entry is not running.
NoSetup ==
    [phase |-> None, remaining |-> 0, attempts |-> 0, outcomes |-> <<>>,
     slept |-> <<>>, returned |-> None, registered |-> FALSE]

\* async_step_user is not running.
NoFlow == [phase |-> None, outcome |-> None, mac |-> None, step |-> 0]

\* No poll has received its bulk listing.
NoPolls ==
    [all_devices |-> [t \in Tasks |-> [i \in DOMAIN CategoryOrder |-> None]],
     order |-> <<>>,
     older |-> [c \in DeviceCats |-> {}]]

\* `self._<category>_update_callbacks = []`; nothing refreshed yet, no host
\* routine under way.
NoListeners ==
    /\ listeners = [c \in DeviceCats |-> <<>>]
    /\ notified = <<>>
    /\ push = NoPush
    /\ setup = NoSetup
    /\ flow = NoFlow
    /\ closes = 0
    /\ polls = NoPolls

\* The client after construction, no call made yet.
Constructed ==
    /\ maps = EmptyMaps
    /\ gateway_device = NoDevice
    /\ lock_holder = None
    /\ lock_waiters = <<>>
    /\ wire = {}
    /\ pc = [t \in Tasks |-> "idle"]
    /\ site = [t \in Tasks |-> None]
    /\ idx = [t \in Tasks |-> 0]
    /\ call = [t \in Tasks |-> NoCall]
    /\ result = [t \in Tasks |-> None]
    /\ logged = [t \in Tasks |-> NoLog]

Init ==
    /\ devCat \in Topologies
    /\ Constructed
    /\ eval = NoEval
    /\ session = Session(None, FALSE, {})
    /\ NoListeners

\* The variables of the client and of its host tasks.
client ==
    <<devCat, maps, gateway_device, lock_holder, lock_waiters, wire, pc, site,
      idx, call, result, logged>>

\* A gateway with covers only, the client just constructed.
Fresh == devCat = [d \in Devices |-> "cover"] /\ Constructed

\* The computation fn is applied to its input.
Applied(fn) == eval.fn = fn /\ "out" \in DOMAIN eval

DevicesOf(c) == {d \in Devices : devCat[d] = c}

\* The task is inside `async with self._lock` of a request.
InRequest(t) == pc[t] \in {"post", "read"}

Category(t) == CategoryOrder[idx[t]]

\* ------------------------------------------------------------------------
\*  _make_encrypted_request
\* ------------------------------------------------------------------------

\* `async with self._lock:` up to `await self._session.post(...)`.
\* asyncio.Lock.acquire returns at once when the lock is free and nobody
\* waits; otherwise the caller is queued and suspended.
EnterRequest(t, caller) ==
    /\ site' = [site EXCEPT ![t] = caller]
    /\ IF lock_holder = None /\ lock_waiters = <<>>
       THEN /\ lock_holder' = t
            /\ session' = SessionForRequest(session)
            /\ wire' = wire \cup {<<t, "POST">>}
            /\ pc' = [pc EXCEPT ![t] = "post"]
            /\ UNCHANGED lock_waiters
       ELSE /\ lock_waiters' = Append(lock_waiters, t)
            /\ session' = IF caller = "connect"
                          THEN SessionForRequest(session)
                          ELSE session
            /\ pc' = [pc EXCEPT ![t] = "lockwait"]
            /\ UNCHANGED <<lock_holder, wire>>

\* The first waiter is woken by release() and goes on to session.post.
LockGranted(t) ==
    /\ pc[t] = "lockwait"
    /\ lock_holder = None
    /\ lock_waiters # <<>> /\ Head(lock_waiters) = t
    /\ lock_holder' = t
    /\ session' = SessionForRequest(session)
    /\ lock_waiters' = Tail(lock_waiters)
    /\ wire' = wire \cup {<<t, "POST">>}
    /\ pc' = [pc EXCEPT ![t] = "post"]
    /\ UNCHANGED <<env, store, site, idx, call, result, logged>>

\* `resp = await self._session.post(...)` returns; resp.read() is awaited.
PostReturns(t) ==
    /\ pc[t] = "post"
    /\ session.ref \notin session.closed
    /\ pc' = [pc EXCEPT ![t] = "read"]
    /\ UNCHANGED <<env, session, store, network, site, idx, call, result, logged>>

\* Faulty variant of LockAfterRequest: the lock is not released.
LockAfterRequestKept(t) == lock_holder

\* Leaving `async with self._lock`: the lock is released.
LockAfterRequest(t) == IF lock_holder = t THEN None ELSE lock_holder

\* The operation of task t ends: it returned r or raised r.
Finish(t, r) ==
    /\ pc' = [pc EXCEPT ![t] = "done"]
    /\ result' = [result EXCEPT ![t] = r]

\* poll_status: the loop goes on to the next category, or the poll returns.
NextCategory(t) ==
    /\ site' = [site EXCEPT ![t] = None]
    /\ IF idx[t] = Len(CategoryOrder)
       THEN Finish(t, None) /\ UNCHANGED idx
       ELSE /\ idx' = [idx EXCEPT ![t] = idx[t] + 1]
            /\ pc' = [pc EXCEPT ![t] = "loop"]
            /\ UNCHANGED result

\* Faulty variant of CallerOnError: poll_status does not catch the failure
\* of a category.
CallerOnErrorUncaught(caller, err) ==
    IF caller = "connect" /\ err = "IT600ConnectionError" THEN "get"
    ELSE "raise"

\* What the caller at `caller` does with an exception err that left
\* _make_encrypted_request: connect starts its plain GET on
\* IT600ConnectionError ("get"), poll_status catches and logs the failure of
\* a category ("next"), everything else lets it propagate ("raise").
CallerOnError(caller, err) ==
    IF caller = "connect" /\ err = "IT600ConnectionError" THEN "get"
    ELSE IF caller = "detail" /\ err \in Exceptions THEN "next"
    ELSE "raise"

\* An exception exc is raised inside the try block of the request.
RequestRaises(t, exc) ==
    /\ \/ pc[t] = "post" /\ exc \in PostExceptions
       \/ pc[t] = "read" /\ exc \in ReadExceptions
    /\ lock_holder' = LockAfterRequest(t)
    /\ UNCHANGED <<env, session, store, lock_waiters, call>>
    /\ LET err == HandleRequestException(exc)
           todo == CallerOnError(site[t], err)
       IN  CASE todo = "get" ->
                    /\ wire' = (wire \ {<<t, "POST">>}) \cup {<<t, "GET">>}
                    /\ pc' = [pc EXCEPT ![t] = "get"]
                    /\ UNCHANGED <<site, idx, result, logged>>
             [] todo = "next" ->
                    /\ wire' = wire \ {<<t, "POST">>}
                    /\ logged' = [logged EXCEPT ![t] = Log(Category(t), err)]
                    /\ NextCategory(t)
             [] todo = "raise" ->
                    /\ wire' = wire \ {<<t, "POST">>}
                    /\ Finish(t, err)
                    /\ UNCHANGED <<site, idx, logged>>

\* sGateway.NetworkLANMAC of an entry of the bulk listing: None when the
\* entry has no such member, "" when it is empty, else the address.
EntryMacs == {None, "", "m1", "m2"}

Entry(mac) == [mac |-> mac]

\* The successful 'readall' responses connect() may get: without an "id"
\* member, or listing up to MaxEntries entries.
ConnectContents ==
    {Response(FALSE, <<>>)} \cup
    {Response(TRUE, entries) :
        entries \in UNION {[1..n -> {Entry(m) : m \in EntryMacs}] :
                             n \in 0..MaxEntries}}

\* Faulty variant of ConnectResult: the last entry with an address is taken.
ConnectResultLast(content) ==
    IF ~content.has_id THEN "KeyError"
    ELSE LET hits == {i \in 1..Len(content.id) :
                        content.id[i].mac \notin {None, ""}}
         IN  IF hits = {} THEN "IT600CommandError"
             ELSE content.id[CHOOSE i \in hits : \A j \in hits : j <= i].mac

\* What connect() makes of a successful 'readall' response: the address of
\* the first entry whose sGateway.NetworkLANMAC is truthy is returned;
\* IT600CommandError is raised when there is none, KeyError when the
\* response has no "id" member.
ConnectResult(content) ==
    IF ~content.has_id THEN "KeyError"
    ELSE LET hits == {i \in 1..Len(content.id) :
                        content.id[i].mac \notin {None, ""}}
         IN  IF hits = {} THEN "IT600CommandError"
             ELSE content.id[CHOOSE i \in hits : \A j \in hits : i <= j].mac

\* The response was read, decrypted and parsed, its status is "success":
\* the request returns to connect().
ConnectReturns(t, content) ==
    /\ pc[t] = "read" /\ site[t] = "connect"
    /\ content \in ConnectContents
    /\ lock_holder' = LockAfterRequest(t)
    /\ wire' = wire \ {<<t, "POST">>}
    /\ Finish(t, ConnectResult(content))
    /\ UNCHANGED <<env, session, store, lock_waiters, site, idx, call, logged>>

\* ... to poll_status with the bulk listing: the category loop starts.
ReadallResumes(t) ==
    /\ pc[t] = "read" /\ site[t] = "readall"
    /\ lock_holder' = LockAfterRequest(t)
    /\ wire' = wire \ {<<t, "POST">>}
    /\ idx' = [idx EXCEPT ![t] = 1]
    /\ pc' = [pc EXCEPT ![t] = "loop"]
    /\ site' = [site EXCEPT ![t] = None]
    /\ UNCHANGED <<session, store, lock_waiters, call, result, logged>>

\* ... in a poll whose listing is not followed.
ReadallReturns(t) == ReadallResumes(t) /\ UNCHANGED env

\* The detail responses the gateway can give to the request task t has in
\* flight.
DetailResponses(t) ==
    IF idx[t] = 0 THEN {}
    ELSE {Response(FALSE, <<>>)} \cup
         {Response(TRUE, rows) :
            rows \in IF Category(t) = "gateway" THEN GatewayRowSeqs
                     ELSE RowSeqs(Category(t), DevicesOf(Category(t)))}

\* The exception a refresh routine raises on a detail response, or None:
\* status["id"] raises KeyError, ds.get of a row that is no object raises
\* AttributeError.
RefreshException(response) ==
    IF ~response.has_id THEN "KeyError"
    ELSE IF \E i \in 1..Len(response.id) : response.id[i].shape = "abort"
    THEN "AttributeError"
    ELSE None

\* ... to a refresh routine with the detail response.  The rows are decoded
\* and the maps assigned; what the routine raises is caught and logged by
\* poll_status.
DetailResumes(t, response) ==
    /\ pc[t] = "read" /\ site[t] = "detail"
    /\ response \in DetailResponses(t)
    /\ lock_holder' = LockAfterRequest(t)
    /\ wire' = wire \ {<<t, "POST">>}
    /\ IF Category(t) = "gateway"
       THEN /\ gateway_device' =
                   IF ~response.has_id THEN gateway_device
                   ELSE RefreshGatewayLoop(response.id,
                                           gateway_device).gateway_device
            /\ UNCHANGED maps
       ELSE /\ maps' =
                   IF ~response.has_id THEN maps
                   ELSE RefreshDevices(Category(t), response.id,
                                       call[t].send_callback, maps).maps
            /\ UNCHANGED gateway_device
    /\ logged' = [logged EXCEPT
                    ![t] = IF RefreshException(response) = None THEN NoLog
                           ELSE Log(Category(t), RefreshException(response))]
    /\ NextCategory(t)
    /\ UNCHANGED <<session, lock_waiters, call>>

\* ... in a poll whose listing is not followed.
DetailReturns(t, response) == DetailResumes(t, response) /\ UNCHANGED env

\* Faulty variant of MapsAfterWrite: the command stores the state it has
\* written in the record of the device.
MapsAfterWriteStored(cmd, device_id, live) ==
    [live EXCEPT ![CommandMap(cmd)] =
                     Put(@, device_id, Device(device_id, "v2", None))]

\* The device-state maps when the write request of a command has returned:
\* the command assigns none of them.
MapsAfterWrite(cmd, device_id, live) == live

\* ... to a command: the command returns.
WriteReturns(t) ==
    /\ pc[t] = "read" /\ site[t] = "write"
    /\ lock_holder' = LockAfterRequest(t)
    /\ wire' = wire \ {<<t, "POST">>}
    /\ Finish(t, None)
    /\ maps' = MapsAfterWrite(call[t].op, call[t].device_id, maps)
    /\ UNCHANGED <<env, session, gateway_device, lock_waiters, site, idx, call,
                   logged>>

\* ------------------------------------------------------------------------
\*  connect
\* ------------------------------------------------------------------------

Connect(t) ==
    /\ pc[t] = "idle"
    /\ call' = [call EXCEPT ![t] = OpCall("connect", None, 0, FALSE)]
    /\ EnterRequest(t, "connect")
    /\ UNCHANGED <<env, store, idx, result, logged>>

\* The plain GET to the bare host is over: the host answered (the task is
\* woken with the response) or the GET failed (it is woken with an
\* Exception: refused, unreachable, timed out).
PlainGetAnswered(t, reached) ==
    /\ pc[t] = "get"
    /\ wire' = wire \ {<<t, "GET">>}
    /\ pc' = [pc EXCEPT ![t] = IF reached THEN "got" ELSE "unreached"]
    /\ UNCHANGED <<env, session, store, lock_holder, lock_waiters, site, idx, call,
                   result, logged>>

\* Faulty variant of PlainGetResult: the two exceptions are swapped.
PlainGetResultSwapped(reached) ==
    IF reached THEN "IT600ConnectionError" ELSE "IT600AuthenticationError"

\* The exception connect() raises once its plain GET is over.
PlainGetResult(reached) ==
    IF reached THEN "IT600AuthenticationError" ELSE "IT600ConnectionError"

\* connect() resumes after the plain GET and raises.
PlainGetCompletes(t) ==
    /\ pc[t] \in {"got", "unreached"}
    /\ Finish(t, PlainGetResult(pc[t] = "got"))
    /\ UNCHANGED <<env, session, store, network, site, idx, call, logged>>

\* ------------------------------------------------------------------------
\*  poll_status
\* ------------------------------------------------------------------------

PollStatus(t, send_callback) ==
    /\ pc[t] = "idle"
    /\ call' = [call EXCEPT
                  ![t] = OpCall("poll_status", None, 0, send_callback)]
    /\ EnterRequest(t, "readall")
    /\ UNCHANGED <<env, store, idx, result, logged>>

\* Faulty variant of ClearedMaps: only the primary map is emptied.
ClearedMapsPrimaryOnly(c, live) ==
    [n \in MapNames |->
        IF c # "gateway" /\ n = PrimaryMap(c) THEN EmptyMap ELSE live[n]]

\* `if not devices:` of a refresh routine: the maps it assigns.
ClearedMaps(c, live) ==
    [n \in MapNames |-> IF n \in CategoryMaps(c) THEN EmptyMap ELSE live[n]]

\* What the bulk listing holds for a category: no row of it ("empty"), rows
\* of it ("listed"), rows of it of which one has no "data" member
\* ("nodata": building the detail request raises KeyError).  A category
\* without paired devices is never listed.
Listings(c) ==
    IF c = "gateway" \/ DevicesOf(c) # {}
    THEN {"empty", "listed", "nodata"}
    ELSE {"empty"}

\* Faulty variant of MapsBeforeRequest: the maps are emptied before the
\* detail request is made.
MapsBeforeRequestCleared(c, listing, live) == ClearedMaps(c, live)

\* The maps when a refresh routine reaches its detail request or returns
\* before it.
MapsBeforeRequest(c, listing, live) ==
    IF listing = "empty" THEN ClearedMaps(c, live) ELSE live

\* One iteration of the category loop up to its first suspension point.
\* The listing is a local value of the poll; what it holds for a category
\* is drawn here, where the loop first looks at it.
CategoryStep(t, listing) ==
    /\ pc[t] = "loop"
    /\ listing \in Listings(Category(t))
    /\ maps' = MapsBeforeRequest(Category(t), listing, maps)
    /\ UNCHANGED <<gateway_device, call>>
    /\ CASE listing = "empty" ->
                /\ logged' = [logged EXCEPT ![t] = NoLog]
                /\ NextCategory(t)
                /\ UNCHANGED <<network, session>>
         [] listing = "nodata" ->
                /\ logged' = [logged EXCEPT
                                ![t] = Log(Category(t), "KeyError")]
                /\ NextCategory(t)
                /\ UNCHANGED <<network, session>>
         [] listing = "listed" ->
                /\ EnterRequest(t, "detail")
                /\ logged' = [logged EXCEPT ![t] = NoLog]
                /\ UNCHANGED <<idx, result>>

\* ... in a poll whose listing is not followed.
PollCategory(t, listing) == CategoryStep(t, listing) /\ UNCHANGED env

\* ------------------------------------------------------------------------
\*  Commands
\* ------------------------------------------------------------------------

Command(t, cmd, device_id, position) ==
    /\ pc[t] = "idle"
    /\ call' = [call EXCEPT ![t] = OpCall(cmd, device_id, position, FALSE)]
    /\ UNCHANGED <<env, store, idx, logged>>
    /\ LET out == CommandOutcome(cmd, device_id, position, maps) IN
       CASE out = "ValueError" ->
                /\ Finish(t, "ValueError")
                /\ UNCHANGED <<network, session, site>>
         [] out = "return" ->
                /\ Finish(t, None)
                /\ UNCHANGED <<network, session, site>>
         [] out = "write" ->
                /\ EnterRequest(t, "write")
                /\ UNCHANGED result

\* ------------------------------------------------------------------------
\*  The host
\* ------------------------------------------------------------------------

\* The host cancels the task at its suspension point (for a poll, the
\* asyncio.timeout around it expires): CancelledError is raised there and
\* is no Exception, so no handler of the client catches it; the lock's
\* context manager releases the lock on the way out.
Cancel(t) ==
    /\ pc[t] \in {"lockwait", "post", "read", "get", "got", "unreached"}
    /\ lock_holder' = LockAfterRequest(t)
    /\ lock_waiters' = SelectSeq(lock_waiters, LAMBDA w : w # t)
    /\ wire' = {r \in wire : r[1] # t}
    /\ Finish(t, "CancelledError")
    /\ UNCHANGED <<env, session, store, site, idx, call, logged>>

\* The host takes the result; the task is free for its next call.
Return(t) ==
    /\ pc[t] = "done"
    /\ pc' = [pc EXCEPT ![t] = "idle"]
    /\ site' = [site EXCEPT ![t] = None]
    /\ idx' = [idx EXCEPT ![t] = 0]
    /\ call' = [call EXCEPT ![t] = NoCall]
    /\ result' = [result EXCEPT ![t] = None]
    /\ logged' = [logged EXCEPT ![t] = NoLog]
    /\ UNCHANGED <<env, session, store, network>>

\* ------------------------------------------------------------------------
\*  Specifications
\* ------------------------------------------------------------------------

\* Command calls <<command, device id, position>>: all of them, and the ones
\* the concurrent specification issues (one per category).
CommandCalls ==
    UNION {{<<cmd, id, pos>> :
               id \in CommandIds(cmd), pos \in CommandPositions(cmd)} :
           cmd \in Commands}

HostCalls ==
    {<<"set_cover_position", "d1", 0>>,
     <<"turn_on_switch_device", "d1_1", 0>>,
     <<"set_climate_device_temperature", "d1", 0>>}

\* A host task starts an operation.
Operation(t, calls) ==
    \/ Connect(t)
    \/ PollStatus(t, FALSE)
    \/ \E c \in calls : Command(t, c[1], c[2], c[3])

\* A suspended operation goes on; responses: the detail responses the
\* gateway may give.
Resume(t, responses) ==
    \/ PostReturns(t)
    \/ \E exc \in PostExceptions \cup ReadExceptions : RequestRaises(t, exc)
    \/ \E content \in ConnectContents : ConnectReturns(t, content)
    \/ ReadallReturns(t)
    \/ \E response \in responses : DetailReturns(t, response)
    \/ WriteReturns(t)
    \/ \E reached \in BOOLEAN : PlainGetAnswered(t, reached)
    \/ PlainGetCompletes(t)
    \/ \E listing \in {"empty", "listed", "nodata"} : PollCategory(t, listing)
    \/ Cancel(t)
    \/ Return(t)

\* Concurrent host tasks on one client.
Next ==
    \E t \in Tasks :
        \/ Operation(t, HostCalls)
        \/ LockGranted(t)
        \/ Resume(t, DetailResponses(t))

Spec == Init /\ [][Next]_vars

\* Concurrent host tasks on one client whose gateway has covers only and
\* answers with at most one row.  The event loop runs a task whose lock was
\* granted, and a request ends: asyncio.timeout(self._request_timeout)
\* bounds the time it takes.
InitLock == Init /\ devCat = [d \in Devices |-> "cover"]

LockResponses ==
    {Response(FALSE, <<>>), Response(TRUE, <<>>),
     Response(TRUE, <<Row("mac", "ok", "v1", FALSE)>>),
     Response(TRUE, <<Row("d1", "ok", "v1", FALSE)>>)}

NextLock ==
    \E t \in Tasks :
        \/ Operation(t, HostCalls)
        \/ LockGranted(t)
        \/ Resume(t, LockResponses)

SpecLock ==
    /\ InitLock
    /\ [][NextLock]_vars
    /\ \A t \in Tasks :
          /\ WF_vars(LockGranted(t))
          /\ WF_vars(InRequest(t) /\ Resume(t, LockResponses))

\* One host task issuing every command.
NextCommands ==
    \/ Operation("t1", CommandCalls)
    \/ Resume("t1", DetailResponses("t1"))

SpecCommands == Init /\ [][NextCommands]_vars

\* close(), and __aexit__ which awaits close(): the client closes the
\* session it owns.
Close(t, op) ==
    /\ pc[t] = "idle"
    /\ op \in {"close", "__aexit__"}
    /\ call' = [call EXCEPT ![t] = OpCall(op, None, 0, FALSE)]
    /\ session' = SessionAfterClose(session)
    /\ Finish(t, None)
    /\ UNCHANGED <<env, store, network, site, idx, logged>>

\* One host task on a client constructed with or without a session of the
\* host, on a gateway with covers only: calls, close() and scoped-block
\* exits in any order.
InitSession ==
    /\ Fresh
    /\ eval = NoEval
    /\ session \in {Session(None, FALSE, {}), Session("host", FALSE, {})}
    /\ NoListeners

NextSession ==
    \/ Operation("t1", HostCalls)
    \/ \E op \in {"close", "__aexit__"} : Close("t1", op)
    \/ Resume("t1", LockResponses)

SpecSession == InitSession /\ [][NextSession]_vars

\* connect() scanning the bulk listing, followed on its own.
InitScan ==
    /\ Fresh /\ session = Session(None, FALSE, {}) /\ NoListeners
    /\ eval \in {[fn |-> "connect", arg |-> c] : c \in ConnectContents}

Scan ==
    /\ eval.fn = "connect" /\ ~Applied("connect")
    /\ eval' = [fn |-> "connect", arg |-> eval.arg,
                out |-> ConnectResult(eval.arg)]
    /\ UNCHANGED <<client, session, pushed, hosted>>

SpecScan == InitScan /\ [][Scan]_vars

\* A refresh routine decoding a detail response, followed on its own.
InitDecode ==
    /\ Fresh /\ session = Session(None, FALSE, {}) /\ NoListeners
    /\ \E c \in DeviceCats, b \in BOOLEAN :
          \E rows \in RowSeqs(c, Devices) :
             eval = [fn |-> "refresh",
                     arg |-> [c |-> c, rows |-> rows, send_callback |-> b]]

Decode ==
    /\ eval.fn = "refresh" /\ ~Applied("refresh")
    /\ eval' = [fn |-> "refresh", arg |-> eval.arg,
                out |-> RefreshDevices(eval.arg.c, eval.arg.rows,
                                       eval.arg.send_callback, EmptyMaps)]
    /\ UNCHANGED <<client, session, pushed, hosted>>

SpecDecode == InitDecode /\ [][Decode]_vars

\* ------------------------------------------------------------------------
\*  Refresh with send_callback=True and the update listeners
\* ------------------------------------------------------------------------

\* Callables a host can register: two that return and one that raises.
Listeners == {"l1", "l2", "bad"}

RaisingListeners == {"bad"}

\* Largest number of listeners registered for one category.
MaxListeners == 2

\* One invocation `await cb(device_id=device_id)`: the listener, its
\* argument, the reading of the row being decoded, and what the category's
\* live map holds under that id when the listener runs.
Notification(l, device_id, val, held) ==
    [listener |-> l, device_id |-> device_id, val |-> val, held |-> held]

\* add_<category>_update_callback: the listener is appended.
AddUpdateCallback(c, l) ==
    /\ push.c = None
    /\ Len(listeners[c]) < MaxListeners
    /\ listeners' = [listeners EXCEPT ![c] = Append(@, l)]
    /\ UNCHANGED <<client, eval, session, notified, push, hosted>>

\* _refresh_<category>_devices(devices, send_callback=True) has its detail
\* response and enters the row loop.
PushRefresh(c, rows) ==
    /\ push.c = None
    /\ DevicesOf(c) # {}
    /\ rows \in RowSeqs(c, DevicesOf(c))
    /\ push' = [NoPush EXCEPT !.c = c, !.arg = rows, !.rows = rows]
    /\ UNCHANGED <<client, eval, session, listeners, notified, hosted>>

\* The row loop is at the top of an iteration.
AtRow == push.c # None /\ ~push.done /\ push.cb = 0

\* The routine is suspended in _send_<category>_update_callback.
InCallbacks == push.c # None /\ ~push.done /\ push.cb > 0

\* The scratch maps when the listeners of a row's primary record are called:
\* _refresh_sensor_devices builds the child records after them, the other
\* routines before.
LocalAtCallback(c, local, ds) ==
    IF c = "sensor" THEN DecodeRow(c, local, [ds EXCEPT !.kids = FALSE])
    ELSE DecodeRow(c, local, ds)

\* One iteration of the row loop up to the first listener: the row is
\* decoded and, under `if send_callback:`, written to the live map.
PushRow ==
    /\ AtRow /\ push.rows # <<>>
    /\ LET ds == Head(push.rows) IN
       IF ds.shape = "abort"
       THEN /\ push' = [push EXCEPT !.done = TRUE]
            /\ UNCHANGED maps
       ELSE IF ds.uid = None \/ ds.shape \in {"skip", "raise"}
       THEN /\ push' = [push EXCEPT !.rows = Tail(@)]
            /\ UNCHANGED maps
       ELSE /\ maps' = LiveAfterRow(push.c, TRUE, maps,
                                    [ds EXCEPT !.kids = FALSE])
            /\ push' = [push EXCEPT
                          !.local = LocalAtCallback(push.c, @, ds),
                          !.cb = 1,
                          !.id = PrimaryKey(push.c, ds.uid),
                          !.val = ds.val,
                          !.child = FALSE]
    /\ UNCHANGED <<devCat, gateway_device, network, pc, site, idx, call,
                   result, logged, eval, session, listeners, notified, hosted>>

\* `for cb in self._<category>_update_callbacks: await cb(device_id=...)`:
\* the next listener runs.  What it raises leaves the loop and is caught by
\* the row's `except Exception`, which ends the iteration.
InvokeListener ==
    /\ InCallbacks /\ push.cb <= Len(listeners[push.c])
    /\ LET l == listeners[push.c][push.cb] IN
       /\ notified' =
             Append(notified,
                    Notification(l, push.id, push.val,
                                 Get(maps[PrimaryMap(push.c)], push.id)))
       /\ push' = IF l \in RaisingListeners
                  THEN [push EXCEPT !.rows = Tail(@), !.cb = 0]
                  ELSE [push EXCEPT !.cb = @ + 1]
    /\ UNCHANGED <<client, eval, session, listeners, hosted>>

\* Every listener has returned: the rest of the iteration.
\* _refresh_sensor_devices goes on with the humidity child, which it writes
\* to the live map and announces as well, and then with the battery child.
AfterCallbacks ==
    /\ InCallbacks /\ push.cb > Len(listeners[push.c])
    /\ LET ds == Head(push.rows)
           hum_uid == ds.uid \o "_humidity"
           hum == Device(hum_uid, ds.val, ds.uid)
       IN  IF push.c = "sensor" /\ ds.kids /\ ~push.child
           THEN /\ maps' = [maps EXCEPT !.sensor_devices = Put(@, hum_uid, hum)]
                /\ push' = [push EXCEPT
                              !.local.sensor_devices = Put(@, hum_uid, hum),
                              !.cb = 1, !.id = hum_uid, !.child = TRUE]
           ELSE /\ push' = [push EXCEPT
                              !.local = DecodeRow(push.c, @, ds),
                              !.rows = Tail(@), !.cb = 0]
                /\ UNCHANGED maps
    /\ UNCHANGED <<devCat, gateway_device, network, pc, site, idx, call,
                   result, logged, eval, session, listeners, notified, hosted>>

\* The loop is over: `self._<category>_devices = local`.
PushAssign ==
    /\ AtRow /\ push.rows = <<>>
    /\ maps' = AssignLocal(push.c, maps, push.local)
    /\ push' = [push EXCEPT !.done = TRUE]
    /\ UNCHANGED <<devCat, gateway_device, network, pc, site, idx, call,
                   result, logged, eval, session, listeners, notified, hosted>>

\* A host registers listeners for the category the gateway has devices in,
\* then that category is refreshed with send_callback=True.
NextPush ==
    \/ \E c \in DeviceCats, l \in Listeners :
          DevicesOf(c) # {} /\ AddUpdateCallback(c, l)
    \/ \E c \in DeviceCats : \E rows \in RowSeqs(c, DevicesOf(c)) :
          PushRefresh(c, rows)
    \/ PushRow
    \/ InvokeListener
    \/ AfterCallbacks
    \/ PushAssign

SpecPush == Init /\ [][NextPush]_vars

\* ------------------------------------------------------------------------
\*  Host setup  (__init__.py, async_setup_gateway_entry)
\* ------------------------------------------------------------------------

\* `for remaining in reversed(range(3))`
SetupAttempts == 3

\* `await asyncio.sleep(3)`
SetupDelay == 3

\* async_setup_gateway_entry is called: the client is constructed and the
\* loop is at its first iteration.
SetupStarted ==
    [NoSetup EXCEPT !.phase = "start", !.remaining = SetupAttempts - 1]

\* Faulty variant of SetupAfterFailure: a connection error of the last
\* attempt is not turned into a failed setup.
SetupAfterFailureRegisters(s, exc) ==
    IF exc \notin Exceptions
    THEN [s EXCEPT !.phase = "over", !.returned = exc]
    ELSE IF s.remaining # 0 THEN [s EXCEPT !.phase = "sleep"]
    ELSE [s EXCEPT !.phase = "over", !.returned = "True",
                   !.registered = TRUE]

\* connect() or poll_status() has raised exc.  `except Exception` retries
\* after a delay unless this was the last attempt; the exception of the last
\* attempt is raised again and the outer handlers turn a connection or
\* authentication error into `return False`.  What they do not catch leaves
\* the function.
SetupAfterFailure(s, exc) ==
    IF exc \notin Exceptions
    THEN [s EXCEPT !.phase = "over", !.returned = exc]
    ELSE IF s.remaining # 0 THEN [s EXCEPT !.phase = "sleep"]
    ELSE IF exc \in {"IT600ConnectionError", "IT600AuthenticationError"}
    THEN [s EXCEPT !.phase = "over", !.returned = "False"]
    ELSE [s EXCEPT !.phase = "over", !.returned = exc]

\* poll_status() has returned: `break`, the gateway is stored in
\* hass.data[DOMAIN] and setup returns True.
SetupAfterSuccess(s) ==
    [s EXCEPT !.phase = "over", !.returned = "True", !.registered = TRUE]

\* The result r of an awaited call is an exception.
Raised(r) == r \in Exceptions \cup {"CancelledError"}

\* The top of an iteration of the retry loop.
SetupAttempt ==
    /\ setup.phase = "start"
    /\ setup' = [setup EXCEPT !.phase = "connect", !.attempts = @ + 1]
    /\ UNCHANGED <<client, eval, session, pushed, flow, closes, polls>>

\* `await gateway.connect()` is over.
SetupConnected(t) ==
    /\ setup.phase = "connect" /\ pc[t] = "done"
    /\ LET r == result[t] IN
       setup' = IF Raised(r)
                THEN SetupAfterFailure(
                         [setup EXCEPT !.outcomes = Append(@, r)], r)
                ELSE [setup EXCEPT !.phase = "poll"]
    /\ pc' = [pc EXCEPT ![t] = "idle"]
    /\ site' = [site EXCEPT ![t] = None]
    /\ idx' = [idx EXCEPT ![t] = 0]
    /\ call' = [call EXCEPT ![t] = NoCall]
    /\ result' = [result EXCEPT ![t] = None]
    /\ logged' = [logged EXCEPT ![t] = NoLog]
    /\ UNCHANGED <<devCat, eval, pushed, session, store, network, flow,
                   closes, polls>>

\* `await gateway.poll_status()` is over.
SetupPolled(t) ==
    /\ setup.phase = "poll" /\ pc[t] = "done"
    /\ LET r == result[t] IN
       setup' = IF Raised(r)
                THEN SetupAfterFailure(
                         [setup EXCEPT !.outcomes = Append(@, r)], r)
                ELSE SetupAfterSuccess(
                         [setup EXCEPT !.outcomes = Append(@, "ok")])
    /\ pc' = [pc EXCEPT ![t] = "idle"]
    /\ site' = [site EXCEPT ![t] = None]
    /\ idx' = [idx EXCEPT ![t] = 0]
    /\ call' = [call EXCEPT ![t] = NoCall]
    /\ result' = [result EXCEPT ![t] = None]
    /\ logged' = [logged EXCEPT ![t] = NoLog]
    /\ UNCHANGED <<devCat, eval, pushed, session, store, network, flow,
                   closes, polls>>

\* `await asyncio.sleep(3)` is over: the next iteration.
SetupSlept ==
    /\ setup.phase = "sleep"
    /\ setup' = [setup EXCEPT !.phase = "start", !.remaining = @ - 1,
                              !.slept = Append(@, SetupDelay)]
    /\ UNCHANGED <<client, eval, session, pushed, flow, closes, polls>>

\* The calls of the client made by the setup, as they go on.
SetupCall(t) ==
    \/ setup.phase = "connect" /\ Connect(t)
    \/ setup.phase = "poll" /\ PollStatus(t, FALSE)
    \/ /\ setup.phase \in {"connect", "poll"}
       /\ \/ PostReturns(t)
          \/ \E exc \in PostExceptions \cup ReadExceptions :
                RequestRaises(t, exc)
          \/ \E content \in ConnectContents : ConnectReturns(t, content)
          \/ ReadallReturns(t)
          \/ \E response \in LockResponses : DetailReturns(t, response)
          \/ \E reached \in BOOLEAN : PlainGetAnswered(t, reached)
          \/ PlainGetCompletes(t)
          \/ \E listing \in {"empty", "listed", "nodata"} :
                PollCategory(t, listing)
          \/ Cancel(t)

\* The host sets up one gateway, with covers only.
InitSetup ==
    /\ Fresh /\ eval = NoEval /\ session = Session(None, FALSE, {})
    /\ listeners = [c \in DeviceCats |-> <<>>]
    /\ notified = <<>>
    /\ push = NoPush
    /\ setup = SetupStarted
    /\ flow = NoFlow
    /\ closes = 0
    /\ polls = NoPolls

NextSetup ==
    \/ SetupAttempt
    \/ SetupCall("t1")
    \/ SetupConnected("t1")
    \/ SetupPolled("t1")
    \/ SetupSlept

SpecSetup == InitSetup /\ [][NextSetup]_vars

\* async_unload_entry of an entry whose setup returned True.  When the
\* platforms are unloaded the gateway is popped from hass.data[DOMAIN] and,
\* if it was there, closed; otherwise the entry stays as it is.
UnloadEntry(unload_ok) ==
    /\ setup.phase = "over" /\ setup.returned = "True"
    /\ IF unload_ok
       THEN /\ setup' = [setup EXCEPT !.phase = "unloaded",
                                      !.registered = FALSE]
            /\ closes' = IF setup.registered THEN closes + 1 ELSE closes
            /\ session' = IF setup.registered THEN SessionAfterClose(session)
                          ELSE session
       ELSE /\ setup' = [setup EXCEPT !.phase = "unload_failed"]
            /\ UNCHANGED <<closes, session>>
    /\ UNCHANGED <<client, eval, pushed, flow, polls>>

\* The host sets up one gateway and later unloads its entry.
NextHost ==
    \/ NextSetup
    \/ \E unload_ok \in BOOLEAN : UnloadEntry(unload_ok)

SpecHost == InitSetup /\ [][NextHost]_vars

\* ------------------------------------------------------------------------
\*  Cover commands: the value written  (set_cover_position)
\* ------------------------------------------------------------------------

\* The digits of Python's "x" presentation type.
HexDigits ==
    <<"0", "1", "2", "3", "4", "5", "6", "7", "8", "9",
      "a", "b", "c", "d", "e", "f">>

\* format(n, "x") for n >= 0.
RECURSIVE FormatHex(_)
FormatHex(n) ==
    IF n < 16 THEN HexDigits[n + 1]
    ELSE FormatHex(n \div 16) \o HexDigits[(n % 16) + 1]

\* f"{n:02x}": zero-padded to two characters.
Format02x(n) == IF n < 16 THEN "0" \o FormatHex(n) ELSE FormatHex(n)

\* The position a cover command asks for.
CoverPosition(cmd, position) ==
    CASE cmd = "open_cover" -> 100
      [] cmd = "close_cover" -> 0
      [] OTHER -> position

\* The sLevelS.SetMoveToLevel values of the writes a cover command issues
\* for a known cover, in order.
CoverWrites(cmd, position) ==
    LET p == CoverPosition(cmd, position) IN
    IF ~(0 <= p /\ p <= 100) THEN <<>>
    ELSE <<Format02x(p) \o "FFFF">>

\* The cover commands a host can issue, with every valid position.
CoverCalls ==
    {[cmd |-> "set_cover_position", position |-> p] : p \in 0..100}
        \cup {[cmd |-> c, position |-> 0] : c \in {"open_cover", "close_cover"}}

\* A cover command for a known cover, followed on its own.
InitCover ==
    /\ Fresh /\ session = Session(None, FALSE, {}) /\ NoListeners
    /\ eval \in {[fn |-> "cover", arg |-> a] : a \in CoverCalls}

Encode ==
    /\ eval.fn = "cover" /\ ~Applied("cover")
    /\ eval' = [fn |-> "cover", arg |-> eval.arg,
                out |-> CoverWrites(eval.arg.cmd, eval.arg.position)]
    /\ UNCHANGED <<client, session, pushed, hosted>>

SpecCover == InitCover /\ [][Encode]_vars

\* ------------------------------------------------------------------------
\*  Cover rows: position and movement  (_refresh_cover_devices)
\* ------------------------------------------------------------------------

\* A member of a row that may be absent (dict.get gives None): an integer
\* field, a string field as its characters.
Field(v) == [present |-> TRUE, value |-> v]

NoInt == [present |-> FALSE, value |-> 0]

NoStr == [present |-> FALSE, value |-> <<>>]

\* A bool | None attribute of a record.
PyBool(b) == IF b THEN "True" ELSE "False"

\* The value of a hexadecimal digit, in either case; -1 for any other
\* character.
HexValue(ch) ==
    CASE ch \in {"a", "A"} -> 10
      [] ch \in {"b", "B"} -> 11
      [] ch \in {"c", "C"} -> 12
      [] ch \in {"d", "D"} -> 13
      [] ch \in {"e", "E"} -> 14
      [] ch \in {"f", "F"} -> 15
      [] \E i \in 1..10 : HexDigits[i] = ch ->
             (CHOOSE i \in 1..10 : HexDigits[i] = ch) - 1
      [] OTHER -> -1

\* `move_raw and len(move_raw) >= 2`: a target is given.
HasTarget(move_raw) == move_raw.present /\ Len(move_raw.value) >= 2

\* int(move_raw[:2], 16) of two characters; -1: ValueError.
ParseHex2(chars) ==
    IF HexValue(chars[1]) < 0 \/ HexValue(chars[2]) < 0 THEN -1
    ELSE 16 * HexValue(chars[1]) + HexValue(chars[2])

\* Faulty variant of CoverIsOpening: a cover at its target counts as
\* opening.
CoverIsOpeningInclusive(current_position, set_position) ==
    current_position <= set_position

\* `current_position < set_position`
CoverIsOpening(current_position, set_position) ==
    current_position < set_position

\* `current_position > set_position`
CoverIsClosing(current_position, set_position) ==
    current_position > set_position

\* What the row loop of _refresh_cover_devices stores for a row with an id:
\* nothing for a disabled endpoint (sButtonS.Mode == 0) and for a row whose
\* decoding raises (ValueError of int(), TypeError of None < int), else the
\* CoverDevice.
DecodeCover(mode, current_position, move_raw) ==
    IF mode = 0 THEN [stored |-> FALSE]
    ELSE IF ~HasTarget(move_raw)
    THEN [stored |-> TRUE,
          current_cover_position |-> current_position,
          is_opening |-> None, is_closing |-> None,
          is_closed |-> (current_position.present
                            /\ current_position.value = 0)]
    ELSE LET set_position == ParseHex2(move_raw.value) IN
         IF set_position < 0 \/ ~current_position.present
         THEN [stored |-> FALSE]
         ELSE [stored |-> TRUE,
               current_cover_position |-> current_position,
               is_opening |-> PyBool(CoverIsOpening(current_position.value,
                                                    set_position)),
               is_closing |-> PyBool(CoverIsClosing(current_position.value,
                                                    set_position)),
               is_closed |-> (current_position.value = 0)]

\* sLevelS.CurrentLevel of the rows decoded.
CurrentLevels ==
    {NoInt} \cup {Field(n) : n \in {0, 1, 9, 10, 11, 79, 80, 81, 99, 100}}

\* sLevelS.MoveToLevel_f of the rows decoded.
MoveToLevels ==
    {NoStr, Field(<<>>), Field(<<"5">>),
     Field(<<"0", "0", "F", "F", "F", "F">>),
     Field(<<"0", "a", "F", "F", "F", "F">>),
     Field(<<"0", "A", "F", "F", "F", "F">>),
     Field(<<"5", "0", "F", "F", "F", "F">>),
     Field(<<"6", "4", "F", "F", "F", "F">>),
     Field(<<"z", "z", "F", "F", "F", "F">>)}

\* sButtonS.Mode of the rows decoded.
ButtonModes == {0, 1}

\* The cover decoder on one row, followed on its own.
InitCoverRow ==
    /\ Fresh /\ session = Session(None, FALSE, {}) /\ NoListeners
    /\ eval \in {[fn |-> "cover_row",
                  arg |-> [mode |-> m, current |-> c, move |-> mv]] :
                    m \in ButtonModes, c \in CurrentLevels,
                    mv \in MoveToLevels}

ApplyDecodeCover ==
    /\ eval.fn = "cover_row" /\ ~Applied("cover_row")
    /\ eval' = [fn |-> "cover_row", arg |-> eval.arg,
                out |-> DecodeCover(eval.arg.mode, eval.arg.current,
                                    eval.arg.move)]
    /\ UNCHANGED <<client, session, pushed, hosted>>

SpecCoverRow == InitCoverRow /\ [][ApplyDecodeCover]_vars

\* ------------------------------------------------------------------------
\*  Getters: the merged views
\* ------------------------------------------------------------------------

\* {**a, **b}: the records of b replace those of a under the same key.
Merge(a, b) ==
    [k \in (DOMAIN a) \cup (DOMAIN b) |-> IF k \in DOMAIN b THEN b[k] ELSE a[k]]

\* The maps get_sensor_devices merges, in order.
SensorViewMaps ==
    <<"sensor_devices", "battery_sensor_devices", "humidity_sensor_devices",
      "energy_sensor_devices">>

\* The maps get_binary_sensor_devices merges, in order.
BinarySensorViewMaps ==
    <<"binary_sensor_devices", "error_binary_sensor_devices">>

get_sensor_devices(m) ==
    Merge(Merge(Merge(m.sensor_devices, m.battery_sensor_devices),
                m.humidity_sensor_devices),
          m.energy_sensor_devices)

get_binary_sensor_devices(m) ==
    Merge(m.binary_sensor_devices, m.error_binary_sensor_devices)

\* The devices of the gateway whose listing entries are followed here.  An
\* entry is passed to every refresh routine whose block it carries (sTempS:
\* sensors, sIT600TH or sTherS: thermostats, ...), so one device can have
\* rows in the detail responses of several categories.
ListedDevices == {"d1"}

\* A refresh routine has decoded the detail response of its category.
Refreshed(c, rows) ==
    /\ c \in DeviceCats
    /\ rows \in RowSeqs(c, ListedDevices)
    /\ maps' = RefreshDevices(c, rows, FALSE, maps).maps
    /\ UNCHANGED <<devCat, gateway_device, network, pc, site, idx, call,
                   result, logged, eval, session, pushed, hosted>>

NextViews ==
    \E c \in DeviceCats : \E rows \in RowSeqs(c, ListedDevices) :
        Refreshed(c, rows)

\* Any sequence of category refreshes on a freshly constructed client.
SpecViews == Init /\ [][NextViews]_vars

\* ------------------------------------------------------------------------
\*  Thermostat rows: the two dialects  (_refresh_climate_devices, const.py)
\* ------------------------------------------------------------------------

HVAC_MODE_OFF == "off"
HVAC_MODE_HEAT == "heat"
HVAC_MODE_COOL == "cool"
HVAC_MODE_AUTO == "auto"

CURRENT_HVAC_OFF == "off"
CURRENT_HVAC_HEAT == "heating"
CURRENT_HVAC_HEAT_IDLE == "idle"
CURRENT_HVAC_COOL == "cooling"
CURRENT_HVAC_COOL_IDLE == "idle"
CURRENT_HVAC_IDLE == "idle"

PRESET_FOLLOW_SCHEDULE == "Follow Schedule"
PRESET_PERMANENT_HOLD == "Permanent Hold"
PRESET_TEMPORARY_HOLD == "Temporary Hold"
PRESET_ECO == "Eco"
PRESET_OFF == "Off"

\* Dialect A (sIT600TH): hvac_mode from th["HoldType"].
DialectAMode(hold) ==
    IF hold = 7 THEN HVAC_MODE_OFF
    ELSE IF hold = 2 THEN HVAC_MODE_HEAT
    ELSE HVAC_MODE_AUTO

\* Faulty variant of DialectAAction: the parity test is inverted.
DialectAActionOdd(hold, running) ==
    IF hold = 7 THEN CURRENT_HVAC_OFF
    ELSE IF running % 2 = 1 THEN CURRENT_HVAC_IDLE
    ELSE CURRENT_HVAC_HEAT

\* Dialect A: hvac_action from th["HoldType"] and th["RunningState"].
DialectAAction(hold, running) ==
    IF hold = 7 THEN CURRENT_HVAC_OFF
    ELSE IF running % 2 = 0 THEN CURRENT_HVAC_IDLE
    ELSE CURRENT_HVAC_HEAT

\* Dialect A: preset_mode.
DialectAPreset(hold) ==
    IF hold = 7 THEN PRESET_OFF
    ELSE IF hold = 2 THEN PRESET_PERMANENT_HOLD
    ELSE PRESET_FOLLOW_SCHEDULE

\* Dialect B (sTherS, sComm, sFanS): hvac_mode from ther["SystemMode"].
DialectBMode(system_mode) ==
    IF system_mode = 4 THEN HVAC_MODE_HEAT
    ELSE IF system_mode = 3 THEN HVAC_MODE_COOL
    ELSE HVAC_MODE_AUTO

\* Faulty variant of DialectBAction: the running states of heating and
\* cooling are exchanged.
DialectBActionExchanged(system_mode, hold, running) ==
    LET is_heating == system_mode = 4 IN
    IF hold = 7 THEN CURRENT_HVAC_OFF
    ELSE IF running = 0 THEN CURRENT_HVAC_IDLE
    ELSE IF is_heating /\ running = 66 THEN CURRENT_HVAC_HEAT
    ELSE IF is_heating THEN CURRENT_HVAC_HEAT_IDLE
    ELSE IF running = 33 THEN CURRENT_HVAC_COOL
    ELSE CURRENT_HVAC_COOL_IDLE

\* Dialect B: hvac_action from scomm["HoldType"], ther["RunningState"] and
\* is_heating.
DialectBAction(system_mode, hold, running) ==
    LET is_heating == system_mode = 4 IN
    IF hold = 7 THEN CURRENT_HVAC_OFF
    ELSE IF running = 0 THEN CURRENT_HVAC_IDLE
    ELSE IF is_heating /\ running = 33 THEN CURRENT_HVAC_HEAT
    ELSE IF is_heating THEN CURRENT_HVAC_HEAT_IDLE
    ELSE IF running = 66 THEN CURRENT_HVAC_COOL
    ELSE CURRENT_HVAC_COOL_IDLE

\* Dialect B: preset_mode.
DialectBPreset(hold) ==
    IF hold = 7 THEN PRESET_OFF
    ELSE IF hold = 2 THEN PRESET_PERMANENT_HOLD
    ELSE IF hold = 10 THEN PRESET_ECO
    ELSE IF hold = 1 THEN PRESET_TEMPORARY_HOLD
    ELSE PRESET_FOLLOW_SCHEDULE

\* What the row loop of _refresh_climate_devices stores for a row with an
\* id: the dialect is chosen by the blocks the row carries, a row of neither
\* shape is skipped.
DecodeClimate(blocks, system_mode, hold, running) ==
    IF "sIT600TH" \in blocks
    THEN [stored |-> TRUE,
          hvac_mode |-> DialectAMode(hold),
          hvac_action |-> DialectAAction(hold, running),
          preset_mode |-> DialectAPreset(hold)]
    ELSE IF {"sTherS", "sComm", "sFanS"} \subseteq blocks
    THEN [stored |-> TRUE,
          hvac_mode |-> DialectBMode(system_mode),
          hvac_action |-> DialectBAction(system_mode, hold, running),
          preset_mode |-> DialectBPreset(hold)]
    ELSE [stored |-> FALSE]

\* The blocks of the rows decoded: Dialect A, Dialect B, both, neither.
BlockSets ==
    {{"sIT600TH"}, {"sTherS", "sComm", "sFanS"},
     {"sIT600TH", "sTherS", "sComm", "sFanS"}, {"sTherS", "sComm"}}

\* SystemMode, HoldType and RunningState of the rows decoded.
SystemModes == {0, 1, 3, 4}

HoldTypes == {0, 1, 2, 7, 10}

RunningStates == {0, 1, 2, 33, 34, 65, 66}

\* The thermostat decoder on one row, followed on its own.
InitClimateRow ==
    /\ Fresh /\ session = Session(None, FALSE, {}) /\ NoListeners
    /\ eval \in {[fn |-> "climate_row",
                  arg |-> [blocks |-> b, system_mode |-> m, hold |-> h,
                           running |-> r]] :
                    b \in BlockSets, m \in SystemModes, h \in HoldTypes,
                    r \in RunningStates}

ApplyDecodeClimate ==
    /\ eval.fn = "climate_row" /\ ~Applied("climate_row")
    /\ eval' = [fn |-> "climate_row", arg |-> eval.arg,
                out |-> DecodeClimate(eval.arg.blocks, eval.arg.system_mode,
                                      eval.arg.hold, eval.arg.running)]
    /\ UNCHANGED <<client, session, pushed, hosted>>

SpecClimateRow == InitClimateRow /\ [][ApplyDecodeClimate]_vars

\* ------------------------------------------------------------------------
\*  Setpoints  (round_to_half, set_climate_device_temperature)
\* ------------------------------------------------------------------------

\* Setpoints are followed in hundredths of a degree: x stands for x / 100.

\* Faulty variant of PyRound: a tie is rounded up.
PyRoundHalfUp(num, den) ==
    LET q == num \div den
        r == num % den
    IN  IF 2 * r < den THEN q ELSE q + 1

\* Python's round() of the fraction num / den (den > 0): to the nearest
\* integer, a tie to the even one.
PyRound(num, den) ==
    LET q == num \div den
        r == num % den
    IN  IF 2 * r < den THEN q
        ELSE IF 2 * r > den THEN q + 1
        ELSE IF q % 2 = 0 THEN q ELSE q + 1

\* round_to_half: `round(number * 2) / 2`, in hundredths.
round_to_half(x100) == PyRound(2 * x100, 100) * 50

\* `value = int(self.round_to_half(setpoint_celsius) * 100)`
SetpointValue(x100) == round_to_half(x100)

\* The setpoints requested, in hundredths: from 1.5 degrees below zero.
SetpointsBelowZero == 150
MinSetpoint == 0 - SetpointsBelowZero
MaxSetpoint == 450

Setpoints == MinSetpoint..MaxSetpoint

\* The setpoint encoding of set_climate_device_temperature, followed on its
\* own.
InitSetpoint ==
    /\ Fresh /\ session = Session(None, FALSE, {}) /\ NoListeners
    /\ eval \in {[fn |-> "setpoint", arg |-> x] : x \in Setpoints}

EncodeSetpoint ==
    /\ eval.fn = "setpoint" /\ ~Applied("setpoint")
    /\ eval' = [fn |-> "setpoint", arg |-> eval.arg,
                out |-> SetpointValue(eval.arg)]
    /\ UNCHANGED <<client, session, pushed, hosted>>

SpecSetpoint == InitSetpoint /\ [][EncodeSetpoint]_vars

\* ------------------------------------------------------------------------
\*  Config flow  (config_flow.py, SalusFlowHandler.async_step_user)
\* ------------------------------------------------------------------------

\* How the try block of async_step_user ends when connect() has given r and
\* the gateway is, or is not, configured already: the entry is created, the
\* flow is aborted (_abort_if_unique_id_configured raises AbortFlow), one of
\* the two handled errors shows the form again, any other exception leaves
\* the step.
FlowOutcome(r, configured) ==
    IF r = "IT600ConnectionError" THEN "connect_error"
    ELSE IF r = "IT600AuthenticationError" THEN "auth_error"
    ELSE IF Raised(r) THEN r
    ELSE IF configured THEN "AbortFlow"
    ELSE "create_entry"

\* Faulty variant of FlowAfterTry: an aborted flow leaves the step without
\* the finally clause.
FlowAfterTryAbortSkips(f, outcome) ==
    IF outcome = "AbortFlow"
    THEN [f EXCEPT !.phase = "over", !.outcome = outcome]
    ELSE [f EXCEPT !.phase = "finally", !.outcome = outcome]

\* The try block is left with outcome: the finally clause runs next.
FlowAfterTry(f, outcome) ==
    [f EXCEPT !.phase = "finally", !.outcome = outcome]

\* async_step_user(user_input): the client is constructed and connect() is
\* to be awaited.
FlowStarted == [NoFlow EXCEPT !.phase = "connect", !.step = 1]

\* Largest number of times the user submits the form.
MaxFlowSteps == 4

\* `unique_id = await gateway.connect()` is over; the rest of the try block.
FlowConnected(t, configured) ==
    /\ flow.phase = "connect" /\ pc[t] = "done"
    /\ flow' = FlowAfterTry(
                   [flow EXCEPT !.mac = IF Raised(result[t]) THEN None
                                        ELSE result[t]],
                   FlowOutcome(result[t], configured))
    /\ pc' = [pc EXCEPT ![t] = "idle"]
    /\ site' = [site EXCEPT ![t] = None]
    /\ idx' = [idx EXCEPT ![t] = 0]
    /\ call' = [call EXCEPT ![t] = NoCall]
    /\ result' = [result EXCEPT ![t] = None]
    /\ logged' = [logged EXCEPT ![t] = NoLog]
    /\ UNCHANGED <<devCat, eval, pushed, session, store, network, setup,
                   closes, polls>>

\* `finally: await gateway.close()`, then the step returns or raises.
FlowClosed ==
    /\ flow.phase = "finally"
    /\ closes' = closes + 1
    /\ UNCHANGED polls
    /\ session' = SessionAfterClose(session)
    /\ flow' = [flow EXCEPT !.phase = "over"]
    /\ UNCHANGED <<client, eval, pushed, setup>>

\* The form was shown again with an error and the user submits it again:
\* async_step_user constructs another client.
FlowResubmitted ==
    /\ flow.phase = "over"
    /\ flow.outcome \in {"connect_error", "auth_error"}
    /\ flow.step < MaxFlowSteps
    /\ flow' = [FlowStarted EXCEPT !.step = flow.step + 1]
    /\ session' = Session(None, FALSE, {})
    /\ closes' = 0
    /\ UNCHANGED polls
    /\ UNCHANGED <<client, eval, pushed, setup>>

\* connect() called by the step, as it goes on.
FlowCall(t) ==
    /\ flow.phase = "connect"
    /\ \/ Connect(t)
       \/ PostReturns(t)
       \/ \E exc \in PostExceptions \cup ReadExceptions :
             RequestRaises(t, exc)
       \/ \E content \in ConnectContents : ConnectReturns(t, content)
       \/ \E reached \in BOOLEAN : PlainGetAnswered(t, reached)
       \/ PlainGetCompletes(t)
       \/ Cancel(t)

\* The user step of the config flow with the input of the user.
InitFlow ==
    /\ Fresh /\ eval = NoEval /\ session = Session(None, FALSE, {})
    /\ listeners = [c \in DeviceCats |-> <<>>]
    /\ notified = <<>>
    /\ push = NoPush
    /\ setup = NoSetup
    /\ flow = FlowStarted
    /\ closes = 0
    /\ polls = NoPolls

NextFlow ==
    \/ FlowCall("t1")
    \/ \E configured \in BOOLEAN : FlowConnected("t1", configured)
    \/ FlowClosed
    \/ FlowResubmitted

SpecFlow == InitFlow /\ [][NextFlow]_vars

\* ------------------------------------------------------------------------
\*  Concurrent polls: the coordinators of the platforms poll one client
\* ------------------------------------------------------------------------

\* A gateway with one switch and one cover.
PollTopology == [d \in Devices |-> IF d = "d1" THEN "switch" ELSE "cover"]

\* `all_devices`, the bulk listing a poll holds: for each category of
\* CategoryOrder whether rows of it are listed.
BulkListings ==
    {l \in [DOMAIN CategoryOrder -> {"empty", "listed"}] :
        \A i \in DOMAIN CategoryOrder : l[i] \in Listings(CategoryOrder[i])}

\* The detail responses the gateway gives: no row, or one row.
PollResponses ==
    {Response(TRUE, <<>>),
     Response(TRUE, <<Row("mac", "ok", "v1", FALSE)>>),
     Response(TRUE, <<Row("d1", "ok", "v1", FALSE)>>),
     Response(TRUE, <<Row("d2", "ok", "v1", FALSE)>>)}

\* The polls whose listing arrived before the listing of poll t.
ArrivedBefore(t) ==
    {polls.order[i] : i \in {j \in DOMAIN polls.order :
        \E k \in DOMAIN polls.order : k > j /\ polls.order[k] = t}}

\* `all_devices = await self._make_encrypted_request("read", ...)` of
\* poll_status returns: the poll holds the newest listing.
ListingReceived(t, listing) ==
    /\ listing \in BulkListings
    /\ ReadallResumes(t)
    /\ polls' =
          [all_devices |-> [polls.all_devices EXCEPT ![t] = listing],
           order |-> Append(SelectSeq(polls.order, LAMBDA u : u # t), t),
           older |-> [c \in DeviceCats |-> polls.older[c] \ {t}]]
    /\ UNCHANGED <<devCat, eval, pushed, setup, flow, closes>>

\* One iteration of the category loop over the listing the poll holds.  A
\* category the listing has no row of is emptied: its maps then hold what
\* that listing said.
CategoryPolled(t) ==
    /\ pc[t] = "loop"
    /\ CategoryStep(t, polls.all_devices[t][idx[t]])
    /\ polls' =
          IF polls.all_devices[t][idx[t]] = "empty"
             /\ Category(t) \in DeviceCats
          THEN [polls EXCEPT !.older[Category(t)] = ArrivedBefore(t)]
          ELSE polls
    /\ UNCHANGED <<devCat, eval, pushed, setup, flow, closes>>

\* The detail response of a category arrives and is stored: every listing
\* a poll holds is older than what the maps of the category now say.
DetailReceived(t, response) ==
    /\ DetailResumes(t, response)
    /\ polls' =
          IF Category(t) \in DeviceCats
          THEN [polls EXCEPT !.older[Category(t)] = Tasks \ {t}]
          ELSE polls
    /\ UNCHANGED <<devCat, eval, pushed, setup, flow, closes>>

\* A task between two suspension points runs on: no other task is
\* scheduled while it walks the category loop.
Runs(t) == \A u \in Tasks \ {t} : pc[u] # "loop"

InitPolls ==
    /\ devCat = PollTopology
    /\ Constructed
    /\ eval = NoEval
    /\ session = Session(None, FALSE, {})
    /\ NoListeners

NextPolls ==
    \E t \in Tasks :
        \/ Runs(t) /\ PollStatus(t, FALSE)
        \/ Runs(t) /\ LockGranted(t)
        \/ Runs(t) /\ PostReturns(t)
        \/ Runs(t) /\ \E listing \in BulkListings : ListingReceived(t, listing)
        \/ Runs(t) /\ CategoryPolled(t)
        \/ Runs(t) /\ \E response \in PollResponses : DetailReceived(t, response)
        \/ Runs(t) /\ Return(t)

SpecPolls == InitPolls /\ [][NextPolls]_vars

\* ------------------------------------------------------------------------
\*  A refresh with send_callback=True of maps a bulk refresh has filled
\* ------------------------------------------------------------------------

\* A bulk refresh of the category the gateway has devices in, before any
\* listener is registered: the maps of the category hold its devices.
BulkRefreshed(c, rows) ==
    /\ push.c = None
    /\ maps = EmptyMaps
    /\ DevicesOf(c) # {}
    /\ Refreshed(c, rows)

NextRefresh ==
    \/ \E c \in DeviceCats : \E rows \in RowSeqs(c, ListedDevices) :
          BulkRefreshed(c, rows)
    \/ NextPush

SpecRefresh == Init /\ [][NextRefresh]_vars

\* ------------------------------------------------------------------------
\*  A thermostat: decoded, commanded, decoded again
\* ------------------------------------------------------------------------

\* DeviceL.ModelIdentifier_i of the rows decoded; None when the row has none.
ClimateModels == {"FC600", "SQ610RF", None}

\* The blocks of a Dialect A row and of a Dialect B row.
DialectABlocks == {"sIT600TH"}
DialectBBlocks == {"sTherS", "sComm", "sFanS"}

\* A thermostat row of a detail response.  hold is HoldType of sIT600TH
\* (Dialect A) or of sComm (Dialect B), heating and cooling the setpoints
\* *_x100 of sIT600TH or of sTherS.
ThermostatRow(blocks, model, system_mode, hold, heating, cooling) ==
    [blocks |-> blocks, model |-> model, system_mode |-> system_mode,
     hold |-> hold, heating |-> heating, cooling |-> cooling]

\* The dialect by which _refresh_climate_devices decodes a row.
DecodeDialect(blocks) ==
    IF "sIT600TH" \in blocks THEN "A"
    ELSE IF {"sTherS", "sComm", "sFanS"} \subseteq blocks THEN "B"
    ELSE None

\* The ClimateDevice the row loop stores for a thermostat row: the fields
\* the commands read and the ones the host shows.  Temperatures stay in
\* hundredths of a degree.
DecodeThermostat(row) ==
    LET decoded == DecodeClimate(row.blocks, row.system_mode, row.hold, 0) IN
    [model |-> row.model,
     hvac_mode |-> decoded.hvac_mode,
     preset_mode |-> decoded.preset_mode,
     hvac_modes |->
        IF DecodeDialect(row.blocks) = "A"
        THEN {HVAC_MODE_OFF, HVAC_MODE_HEAT, HVAC_MODE_AUTO}
        ELSE {HVAC_MODE_HEAT, HVAC_MODE_COOL, HVAC_MODE_AUTO},
     target_temperature |->
        IF DecodeDialect(row.blocks) = "A" \/ row.system_mode = 4
        THEN row.heating
        ELSE row.cooling]

\* One member of the payload of a write request.
Payload(block, attr, value) ==
    [block |-> block, attr |-> attr, value |-> value]

\* set_climate_device_preset: the payload written for `device`.
PresetPayload(device, preset) ==
    IF device.model = "FC600"
    THEN Payload("sComm", "SetHoldType",
                 IF preset = PRESET_OFF THEN 7
                 ELSE IF preset = PRESET_ECO THEN 10
                 ELSE IF preset = PRESET_PERMANENT_HOLD THEN 2
                 ELSE IF preset = PRESET_TEMPORARY_HOLD THEN 1
                 ELSE 0)
    ELSE Payload("sIT600TH", "SetHoldType",
                 IF preset = PRESET_OFF THEN 7
                 ELSE IF preset = PRESET_PERMANENT_HOLD THEN 2
                 ELSE 0)

\* set_climate_device_mode: the payload written for `device`.
ModePayload(device, mode) ==
    IF device.model = "FC600"
    THEN Payload("sTherS", "SetSystemMode",
                 IF mode = HVAC_MODE_HEAT THEN 4
                 ELSE IF mode = HVAC_MODE_COOL THEN 3
                 ELSE 1)
    ELSE Payload("sIT600TH", "SetHoldType",
                 IF mode = HVAC_MODE_OFF THEN 7 ELSE 0)

\* set_climate_device_temperature: the payload written for `device`.
TemperaturePayload(device, setpoint_x100) ==
    LET value == SetpointValue(setpoint_x100) IN
    IF device.model = "FC600"
    THEN IF device.hvac_mode = HVAC_MODE_COOL
         THEN Payload("sTherS", "SetCoolingSetpoint_x100", value)
         ELSE Payload("sTherS", "SetHeatingSetpoint_x100", value)
    ELSE Payload("sIT600TH", "SetHeatingSetpoint_x100", value)

ThermostatCommands ==
    {"set_climate_device_preset", "set_climate_device_mode",
     "set_climate_device_temperature"}

\* The payload a thermostat command writes.
ThermostatPayload(device, cmd, param) ==
    IF cmd = "set_climate_device_preset"
    THEN PresetPayload(device, param.preset)
    ELSE IF cmd = "set_climate_device_mode"
    THEN ModePayload(device, param.mode)
    ELSE TemperaturePayload(device, param.setpoint)

\* The dialect a payload is written in: sIT600TH is Dialect A, sTherS and
\* sComm are Dialect B.
PayloadDialect(payload) == IF payload.block = "sIT600TH" THEN "A" ELSE "B"

\* The device's row once the gateway has applied a write: the attribute set
\* is the one the next detail response reports.  A block the device does not
\* have is not written.
GatewayApplies(row, payload) ==
    IF payload.block \notin row.blocks THEN row
    ELSE IF payload.attr = "SetHoldType"
    THEN [row EXCEPT !.hold = payload.value]
    ELSE IF payload.attr = "SetSystemMode"
    THEN [row EXCEPT !.system_mode = payload.value]
    ELSE IF payload.attr = "SetHeatingSetpoint_x100"
    THEN [row EXCEPT !.heating = payload.value]
    ELSE [row EXCEPT !.cooling = payload.value]

\* The presets, modes and setpoints (in hundredths) the host asks for.
ThermostatParams(cmd) ==
    IF cmd = "set_climate_device_preset"
    THEN {[preset |-> p] :
            p \in {PRESET_FOLLOW_SCHEDULE, PRESET_PERMANENT_HOLD,
                   PRESET_TEMPORARY_HOLD, PRESET_ECO, PRESET_OFF}}
    ELSE IF cmd = "set_climate_device_mode"
    THEN {[mode |-> m] :
            m \in {HVAC_MODE_OFF, HVAC_MODE_HEAT, HVAC_MODE_COOL,
                   HVAC_MODE_AUTO}}
    ELSE {[setpoint |-> x] : x \in {1800, 2224}}

\* A thermostat row is decoded and a command is called for its record.
InitThermostat ==
    /\ Fresh /\ session = Session(None, FALSE, {}) /\ NoListeners
    /\ \E b \in {DialectABlocks, DialectBBlocks}, model \in ClimateModels,
          m \in {1, 3, 4}, h \in HoldTypes, cmd \in ThermostatCommands :
          \E param \in ThermostatParams(cmd) :
             eval = [fn |-> "thermostat",
                     arg |-> [row |-> ThermostatRow(b, model, m, h,
                                                    2000, 2400),
                              cmd |-> cmd, param |-> param]]

\* The command writes its payload, the gateway applies it, and the next
\* poll decodes the row again.
CommandThermostat ==
    /\ eval.fn = "thermostat" /\ ~Applied("thermostat")
    /\ LET device == DecodeThermostat(eval.arg.row)
           payload == ThermostatPayload(device, eval.arg.cmd, eval.arg.param)
           after == GatewayApplies(eval.arg.row, payload)
       IN  eval' = [fn |-> "thermostat", arg |-> eval.arg,
                    out |-> [device |-> device, payload |-> payload,
                             shown |-> DecodeThermostat(after)]]
    /\ UNCHANGED <<client, session, pushed, hosted>>

SpecThermostat == InitThermostat /\ [][CommandThermostat]_vars

\* ------------------------------------------------------------------------
\*  _voltage_to_battery_pct
\* ------------------------------------------------------------------------

\* Voltages are in hundredths of a volt: BatteryVoltage_x10 / 10 is a whole
\* number of tenths, the thresholds have one decimal.

\* BATTERY_VOLTAGE_THRESHOLDS: <<threshold, percent>> from high to low.
BATTERY_VOLTAGE_THRESHOLDS(curve) ==
    IF curve = "window"
    THEN <<<<260, 100>>, <<230, 50>>, <<210, 25>>, <<0, 0>>>>
    ELSE IF curve = "door"
    THEN <<<<290, 100>>, <<280, 50>>, <<220, 25>>, <<0, 0>>>>
    ELSE <<<<520, 100>>, <<460, 50>>, <<420, 25>>, <<0, 0>>>>

DOOR_VOLTAGE_MODELS == {"SmokeSensor-EM", "WLS600", "TS600", "SD600"}
WINDOW_VOLTAGE_MODELS == {"SW600", "OS600"}
ENERGY_METER_VOLTAGE_MODELS == {"RE600", "RE10B"}

\* The curve the model of a device selects.
VoltageCurve(model) ==
    IF model \in WINDOW_VOLTAGE_MODELS THEN "window"
    ELSE IF model \in DOOR_VOLTAGE_MODELS THEN "door"
    ELSE IF model \in ENERGY_METER_VOLTAGE_MODELS THEN "energy_meter"
    ELSE "door"

\* Faulty variant of FirstThresholdMet: a voltage equal to a threshold does
\* not meet it.
RECURSIVE FirstThresholdAbove(_, _)
FirstThresholdAbove(thresholds, voltage) ==
    IF thresholds = <<>> THEN 0
    ELSE IF voltage > Head(thresholds)[1] THEN Head(thresholds)[2]
    ELSE FirstThresholdAbove(Tail(thresholds), voltage)

\* `for threshold_v, pct, _status in thresholds: if voltage >= threshold_v:
\* return pct`, and `return 0` after the loop.
RECURSIVE FirstThresholdMet(_, _)
FirstThresholdMet(thresholds, voltage) ==
    IF thresholds = <<>> THEN 0
    ELSE IF voltage >= Head(thresholds)[1] THEN Head(thresholds)[2]
    ELSE FirstThresholdMet(Tail(thresholds), voltage)

voltage_to_battery_pct(voltage, model) ==
    FirstThresholdMet(BATTERY_VOLTAGE_THRESHOLDS(VoltageCurve(model)), voltage)

\* The voltages converted, in hundredths of a volt, and the models: the
\* ones of the three sets, one of no set, and no model.
VoltagesBelowZero == 20
MinVoltage == 0 - VoltagesBelowZero
MaxVoltage == 600

BatteryModels ==
    WINDOW_VOLTAGE_MODELS \cup DOOR_VOLTAGE_MODELS
        \cup ENERGY_METER_VOLTAGE_MODELS \cup {"SQ610RF", None}

InitBattery ==
    /\ Fresh /\ session = Session(None, FALSE, {}) /\ NoListeners
    /\ eval \in {[fn |-> "battery", arg |-> [voltage |-> v, model |-> m]] :
                    v \in MinVoltage..MaxVoltage, m \in BatteryModels}

ConvertVoltage ==
    /\ eval.fn = "battery" /\ ~Applied("battery")
    /\ eval' = [fn |-> "battery", arg |-> eval.arg,
                out |-> voltage_to_battery_pct(eval.arg.voltage,
                                               eval.arg.model)]
    /\ UNCHANGED <<client, session, pushed, hosted>>

SpecBattery == InitBattery /\ [][ConvertVoltage]_vars

\* ------------------------------------------------------------------------
\*  Properties
\* ------------------------------------------------------------------------

\* C1: under any interleaving of connect, poll_status and commands at most
\* one HTTP request of the client is in flight at any time.  (connect's plain
\* GET is sent without the lock, so it can overlap another task's POST.)
C1_OneRequestInFlight == Cardinality(wire) <= 1

\* The maps of category c, as the getters show them.
CategoryView(c, m) == [n \in CategoryMaps(c) |-> m[n]]

\* The rows of a response from which records are built.
Decoded(rows) ==
    {i \in 1..Len(rows) : rows[i].uid # None /\ rows[i].shape = "ok"}

\* The records one row stands for, by map.
RowRecords(c, ds) == DecodeRow(c, EmptyMaps, ds)

\* The complete decode of a response: every record of every decoded row,
\* the last row winning where two rows give the same key.
CompleteMap(c, rows, n) ==
    LET from(k) == {i \in Decoded(rows) : k \in DOMAIN RowRecords(c, rows[i])[n]}
        last(k) == CHOOSE i \in from(k) : \A j \in from(k) : j <= i
        keys == UNION {DOMAIN RowRecords(c, rows[i])[n] : i \in Decoded(rows)}
    IN  [k \in keys |-> RowRecords(c, rows[last(k)])[n][k]]

\* The responses the refresh routine of category c decodes without raising.
DecodableRowSeqs(c, devs) ==
    {r \in RowSeqs(c, devs) : \A i \in 1..Len(r) : r[i].shape # "abort"}

\* <<c, devs, view>>: view is the complete decode, by category c, of a
\* response about the devices devs.
CompleteViewTable ==
    UNION {{<<c, devs, [n \in CategoryMaps(c) |-> CompleteMap(c, rows, n)]>> :
               rows \in DecodableRowSeqs(c, devs)} :
           c \in DeviceCats, devs \in SUBSET Devices}

\* The view is a complete decode of a response for category c.
CompleteView(c, view) == <<c, DevicesOf(c), view>> \in CompleteViewTable

\* A step in which a bulk poll logs a category failure or a task is
\* cancelled by the host.
FailsOrCancelled(t) ==
    \/ logged'[t] # NoLog /\ logged'[t] # logged[t]
    \/ result'[t] = "CancelledError" /\ result[t] # "CancelledError"
    \/ result'[t] \in IT600Errors /\ result[t] # result'[t]

\* C2: in a bulk poll every step leaves each category's maps as they were or
\* replaces them by the complete decode of a response (the empty one for an
\* empty listing); a step that fails or is cancelled leaves them as they
\* were.
C2_WholeMapOrOldMap ==
    [][\/ maps' = maps
       \/ /\ \A t \in Tasks : ~FailsOrCancelled(t)
          /\ \A c \in DeviceCats :
                \/ CategoryView(c, maps') = CategoryView(c, maps)
                \/ CompleteView(c, CategoryView(c, maps'))]_vars

\* A poll was cancelled while waiting for the detail response of a category
\* whose map holds records; another task's poll is under way.
C2_Witness ==
    \E t \in Tasks, u \in Tasks :
        /\ t # u
        /\ call[t].op = "poll_status" /\ pc[t] = "done"
        /\ result[t] = "CancelledError" /\ idx[t] >= 2
        /\ maps[PrimaryMap(Category(t))] # EmptyMap
        /\ call[u].op = "poll_status" /\ pc[u] = "read" /\ site[u] = "detail"

\* The step is one of task t.
StepOf(t) ==
    <<pc[t], site[t], idx[t], call[t], result[t], logged[t]>>' #
        <<pc[t], site[t], idx[t], call[t], result[t], logged[t]>>

\* The step leaves a request of the poll of task t pending: the request was
\* issued, the lock was granted, or the response headers arrived.
PollRequestPending(t) ==
    /\ StepOf(t)
    /\ site'[t] \in {"readall", "detail"}
    /\ pc'[t] \in {"lockwait", "post", "read"}

\* In the step the detail request of task t fails: poll_status logs the
\* exception the request raised.
DetailRequestFails(t) ==
    /\ pc[t] \in {"post", "read"} /\ site[t] = "detail"
    /\ logged'[t].exc \in IT600Errors

\* In the step the 'readall' request of task t ends without its response.
ReadallFails(t) ==
    /\ pc[t] \in {"post", "read"} /\ site[t] = "readall"
    /\ pc'[t] \notin {"post", "read", "loop"}

\* C3: from the start of a poll to the failure of a category's detail
\* request no step of the poll changes a stored map or the gateway record,
\* other than the refresh of an earlier category; a failed 'readall' request
\* makes poll_status raise with every map and the gateway record unchanged.
C3_FailedRequestKeepsMaps ==
    [][\A t \in Tasks :
          /\ PollRequestPending(t) \/ DetailRequestFails(t) \/ ReadallFails(t)
                => store' = store
          /\ ReadallFails(t)
                => /\ pc'[t] = "done"
                   /\ result'[t] \in IT600Errors \cup {"CancelledError"}]_vars

\* The detail request of a category whose map holds records has just failed.
C3_Witness ==
    \E t \in Tasks :
        /\ logged[t].exc \in IT600Errors
        /\ logged[t].label \in DeviceCats
        /\ maps[PrimaryMap(logged[t].label)] # EmptyMap

\* The position of a category in the order poll_status walks.
Position(label) ==
    CHOOSE i \in 1..Len(CategoryOrder) : CategoryOrder[i] = label

\* C4: once poll_status has logged the failure of a category it is at the
\* next category of the same cycle, or has returned normally after the last;
\* a poll that has entered the category loop ends only by returning normally
\* after the last category, or by host cancellation.
C4_CategoryFailureContained ==
    \A t \in Tasks :
        call[t].op = "poll_status" =>
            /\ logged[t] # NoLog =>
                  \/ /\ pc[t] = "loop"
                     /\ idx[t] = Position(logged[t].label) + 1
                  \/ /\ pc[t] = "done" /\ result[t] = None
                     /\ Position(logged[t].label) = Len(CategoryOrder)
            /\ pc[t] = "done" /\ idx[t] >= 1 =>
                  \/ result[t] = None /\ idx[t] = Len(CategoryOrder)
                  \/ result[t] = "CancelledError"

\* The climate decoder has just raised and the poll is at the next category.
C4_Witness ==
    \E t \in Tasks :
        /\ call[t].op = "poll_status"
        /\ logged[t] = Log("climate", "AttributeError")
        /\ pc[t] = "loop" /\ Category(t) = "binary_sensor"

\* C5: the lock is held only by a task inside a request, so every way out
\* of the request releases it; a request does not hold the lock forever and
\* a waiting caller is eventually granted the lock (unless the host cancels
\* it first).
C5_LockReleased ==
    /\ [](\A t \in Tasks : lock_holder = t => InRequest(t))
    /\ \A t \in Tasks :
          /\ (lock_holder = t) ~> (lock_holder # t)
          /\ (pc[t] = "lockwait") ~>
                 (lock_holder = t \/ result[t] = "CancelledError")

\* A task waits for the lock while the holder's request was cancelled by
\* the host: the lock is free again.
C5_Witness ==
    \E t \in Tasks, u \in Tasks :
        /\ pc[t] = "lockwait" /\ lock_holder = None
        /\ pc[u] = "done" /\ result[u] = "CancelledError"
        /\ site[u] \in {"readall", "detail", "write", "connect"}

\* The maps the refresh of a category with an empty list empties.
EmptiedMaps(c) ==
    CASE c = "climate" ->
            {"climate_devices", "battery_sensor_devices",
             "humidity_sensor_devices", "error_binary_sensor_devices"}
      [] c = "binary_sensor" -> {"binary_sensor_devices"}
      [] c = "sensor" -> {"sensor_devices"}
      [] c = "switch" -> {"switch_devices", "energy_sensor_devices"}
      [] c = "cover" -> {"cover_devices"}

\* The step is the refresh of a category of task t's poll with an empty
\* filtered list: the loop moves on at once and nothing is logged.
RefreshesEmptyList(t) ==
    /\ pc[t] = "loop" /\ Category(t) \in DeviceCats
    /\ pc'[t] \in {"loop", "done"}
    /\ idx'[t] # idx[t] \/ pc'[t] = "done"
    /\ logged'[t] = NoLog

\* C6: refreshing climate, binary sensor, sensor, switch or cover with an
\* empty filtered list empties the category's maps (its derived maps too),
\* changes no other map and issues no request.
C6_EmptyListClears ==
    [][\A t \in Tasks :
          RefreshesEmptyList(t) =>
              /\ maps' = [n \in MapNames |->
                            IF n \in EmptiedMaps(Category(t)) THEN EmptyMap
                            ELSE maps[n]]
              /\ gateway_device' = gateway_device
              /\ network' = network]_vars

\* A command has found its device and made its write request; a poll has
\* since passed the device's category and the device is gone from the map.
C6_Witness ==
    \E t \in Tasks, u \in Tasks :
        /\ call[u].op \in Commands /\ site[u] = "write"
        /\ maps[CommandMap(call[u].op)] = EmptyMap
        /\ call[t].op = "poll_status" /\ pc[t] = "loop"
        /\ logged[t] = NoLog /\ idx[t] >= 3

\* The call of a command with a device id its category map does not hold
\* (and, for a cover command, a position in 0..100).
CallsUnknownDevice(t) ==
    /\ pc[t] = "idle" /\ call'[t].op \in Commands
    /\ Get(maps[CommandMap(call'[t].op)], call'[t].device_id) = NoDevice
    /\ call'[t].op \in CoverCommands =>
          0 <= call'[t].position /\ call'[t].position <= 100

\* C7: a command called with a device id that is not in its category map
\* returns without raising, issues no request and changes no stored state.
C7_UnknownDeviceReturns ==
    [][\A t \in Tasks :
          CallsUnknownDevice(t) =>
              /\ pc'[t] = "done" /\ result'[t] = None
              /\ store' = store
              /\ network' = network]_vars

\* A climate command with an unknown id has returned while the climate map
\* holds other devices.
C7_Witness ==
    \E t \in Tasks :
        /\ call[t].op = "set_climate_device_temperature"
        /\ call[t].device_id = UnknownId
        /\ pc[t] = "done" /\ result[t] = None
        /\ maps["climate_devices"] # EmptyMap

\* C8: set_cover_position with a position outside 0..100 raises ValueError
\* before any request, for a known and for an unknown device id, and
\* changes no stored state.
C8_PositionValidatedFirst ==
    [][\A t \in Tasks :
          /\ pc[t] = "idle" /\ call'[t].op = "set_cover_position"
          /\ call'[t].position < 0 \/ call'[t].position > 100
          => /\ pc'[t] = "done" /\ result'[t] = "ValueError"
             /\ store' = store
             /\ network' = network]_vars

\* set_cover_position has rejected position 101 for a device the cover map
\* holds.
C8_Witness ==
    \E t \in Tasks :
        /\ call[t].op = "set_cover_position" /\ call[t].position = 101
        /\ call[t].device_id \in DOMAIN maps["cover_devices"]
        /\ pc[t] = "done" /\ result[t] = "ValueError"

\* C9: a request ends by returning its response to the caller or by raising
\* IT600ConnectionError or IT600CommandError (CancelledError when the host
\* cancels); seen at the callers that let its exceptions through: a command
\* and the 'readall' of a poll end with one of these, connect() with one of
\* these or with what it makes of the response.
C9_RequestOutcomes ==
    [][\A t \in Tasks :
          InRequest(t) /\ ~InRequest(t)' /\ site[t] # "detail" =>
              \/ pc'[t] = "done" /\
                 result'[t] \in {"IT600ConnectionError", "IT600CommandError",
                                 "CancelledError"}
              \/ site[t] = "write" /\ pc'[t] = "done" /\ result'[t] = None
              \/ site[t] = "readall" /\ pc'[t] = "loop"
              \/ site[t] = "connect" /\ pc'[t] = "get"
              \/ site[t] = "connect" /\ pc'[t] = "done" /\
                 result'[t] \in {ConnectResult(c) : c \in ConnectContents}]_vars

\* The write request of a command has failed with IT600CommandError.
C9_Witness ==
    \E t \in Tasks :
        /\ call[t].op \in Commands /\ site[t] = "write"
        /\ pc[t] = "done" /\ result[t] = "IT600CommandError"

\* C10: connect() lets no IT600ConnectionError of its encrypted request out
\* but makes one plain GET; after the GET it raises
\* IT600AuthenticationError if the host answered and IT600ConnectionError if
\* it did not, and returns no identifier; IT600AuthenticationError is raised
\* nowhere else.
C10_ConnectFallback ==
    [][\A t \in Tasks :
          /\ InRequest(t) /\ site[t] = "connect" /\ pc'[t] = "done"
                => result'[t] \notin {"IT600ConnectionError",
                                      "IT600AuthenticationError"}
          /\ pc'[t] = "get" /\ pc[t] # "get"
                => /\ InRequest(t) /\ site[t] = "connect"
                   /\ wire' \ wire = {<<t, "GET">>}
          /\ pc[t] = "get" /\ pc'[t] # "get"
                => \/ pc'[t] \in {"got", "unreached"}
                   \/ pc'[t] = "done" /\ result'[t] = "CancelledError"
          /\ pc[t] = "got" /\ pc'[t] # "got"
                => /\ pc'[t] = "done"
                   /\ result'[t] \in {"IT600AuthenticationError",
                                      "CancelledError"}
          /\ pc[t] = "unreached" /\ pc'[t] # "unreached"
                => /\ pc'[t] = "done"
                   /\ result'[t] \in {"IT600ConnectionError",
                                      "CancelledError"}
          /\ result'[t] = "IT600AuthenticationError" /\
             result[t] # "IT600AuthenticationError"
                => pc[t] = "got" /\ call[t].op = "connect"]_vars

\* connect() has raised IT600AuthenticationError after its plain GET.
C10_Witness ==
    \E t \in Tasks :
        /\ call[t].op = "connect" /\ pc[t] = "done"
        /\ result[t] = "IT600AuthenticationError"

\* The entry carries a non-empty sGateway.NetworkLANMAC.
CarriesMac(entry) == entry.mac # None /\ entry.mac # ""

\* C11: from a successful 'readall' response connect() returns the
\* NetworkLANMAC of the first listed entry that carries a non-empty one, and
\* raises IT600CommandError when no listed entry carries one.
C11_FirstGatewayMac ==
    Applied("connect") /\ eval.arg.has_id =>
        LET entries == eval.arg.id IN
        \/ \E i \in 1..Len(entries) :
              /\ CarriesMac(entries[i])
              /\ \A j \in 1..(i - 1) : ~CarriesMac(entries[j])
              /\ eval.out = entries[i].mac
        \/ /\ \A i \in 1..Len(entries) : ~CarriesMac(entries[i])
           /\ eval.out = "IT600CommandError"

\* The listing holds an entry with an empty address before two entries with
\* different addresses; the first of the two was returned.
C11_Witness ==
    /\ Applied("connect")
    /\ eval.arg = Response(TRUE, <<Entry(""), Entry("m2"), Entry("m1")>>)
    /\ eval.out = "m2"

\* C12: the client never closes a session the host supplied and never
\* replaces it; it creates a session only when it has none; close() and
\* leaving the scoped block close the session the client created.
C12_SessionOwnership ==
    [][/\ "host" \notin session'.closed
       /\ session.ref = "host" => session'.ref = "host"
       /\ session'.ref = "own" => session.ref \in {None, "own"}
       /\ \A t \in Tasks :
             /\ pc[t] = "idle" /\ call'[t].op \in {"close", "__aexit__"}
             /\ session.ref = "own"
             => "own" \in session'.closed]_vars

\* The client was constructed without a session, created one for a request
\* and has closed it on leaving the scoped block.
C12_Witness ==
    \E t \in Tasks :
        /\ call[t].op = "__aexit__" /\ pc[t] = "done"
        /\ session = Session("own", TRUE, {"own"})

\* The ids of the primary records the rows decoded so far have produced,
\* in row order.
RECURSIVE DecodedIds(_, _)
DecodedIds(c, rows) ==
    IF rows = <<>> THEN <<>>
    ELSE LET ds == Head(rows) IN
         IF ds.uid = None \/ ds.shape # "ok" THEN DecodedIds(c, Tail(rows))
         ELSE <<PrimaryKey(c, ds.uid)>> \o DecodedIds(c, Tail(rows))

\* The invocations the claim requires for the decoded ids: every registered
\* listener once per id, in registration order.
RECURSIVE ExpectedCalls(_, _)
ExpectedCalls(ids, ls) ==
    IF ids = <<>> THEN <<>>
    ELSE [i \in 1..Len(ls) |-> <<ls[i], Head(ids)>>]
             \o ExpectedCalls(Tail(ids), ls)

\* The invocations made with the id of a primary record.
RECURSIVE PrimaryCalls(_, _)
PrimaryCalls(log, ids) ==
    IF log = <<>> THEN <<>>
    ELSE IF \E i \in 1..Len(ids) : ids[i] = Head(log).device_id
    THEN <<<<Head(log).listener, Head(log).device_id>>>>
             \o PrimaryCalls(Tail(log), ids)
    ELSE PrimaryCalls(Tail(log), ids)

\* The refresh with send_callback=True has decoded every row and assigned
\* its maps.
PushCompleted == push.done /\ push.rows = <<>>

\* C13: when a category is refreshed with send_callback true, the live map
\* holds the new record of a decoded primary device when its listeners run,
\* and every listener registered for the category is invoked once per decoded
\* device with that device's id, in registration order.  (A listener that
\* raises ends the notification of that device: the listeners registered
\* after it are not invoked.)
C13_ListenersNotified ==
    /\ \A i \in 1..Len(notified) :
          /\ notified[i].held.unique_id = notified[i].device_id
          /\ notified[i].held.state = notified[i].val
    /\ PushCompleted =>
          LET ids == DecodedIds(push.c, push.arg) IN
          PrimaryCalls(notified, ids) = ExpectedCalls(ids, listeners[push.c])

\* The row decodes to a record.
Decodable(ds) == ds.uid # None /\ ds.shape = "ok"

\* The rows of a response that decode to a record, in order.
DecodableRows(rows) == SelectSeq(rows, Decodable)

\* C14: in every category decoder a row whose decoding raises, or that has
\* no stable identifier, is skipped: the other rows of the response are
\* decoded and stored and the refresh completes normally.  (The id
\* extraction precedes the row's try block: what it raises ends the refresh
\* and nothing of the response is stored.)
C14_BadRowSkipped ==
    Applied("refresh") =>
        /\ ~eval.out.raised
        /\ CategoryView(eval.arg.c, eval.out.maps)
               = CategoryView(eval.arg.c,
                              RefreshDevices(eval.arg.c,
                                             DecodableRows(eval.arg.rows),
                                             eval.arg.send_callback,
                                             EmptyMaps).maps)

\* C15: async_setup_gateway_entry makes at most three attempts of connect()
\* followed by poll_status(), with a fixed delay between attempts, and stops
\* at the first success; when the last attempt fails with a connection or
\* authentication error it returns False and the gateway is not registered.
C15_SetupRetries ==
    LET n == Len(setup.outcomes) IN
    /\ setup.attempts <= SetupAttempts
    /\ n <= setup.attempts /\ setup.attempts <= n + 1
    /\ \A i \in 1..(n - 1) : setup.outcomes[i] # "ok"
    /\ \A i \in 1..Len(setup.slept) : setup.slept[i] = SetupDelay
    /\ setup.phase \in {"connect", "poll"} =>
          Len(setup.slept) = setup.attempts - 1
    /\ n > 0 /\ setup.outcomes[n] = "ok" =>
          /\ setup.phase = "over" /\ setup.attempts = n
          /\ setup.returned = "True" /\ setup.registered
    /\ /\ n = SetupAttempts
       /\ setup.outcomes[n] \in
              {"IT600ConnectionError", "IT600AuthenticationError"}
       => /\ setup.phase = "over"
          /\ setup.returned = "False" /\ ~setup.registered

\* The third attempt has failed with a connection error.
C15_Witness ==
    /\ Len(setup.outcomes) = SetupAttempts
    /\ setup.outcomes[SetupAttempts] = "IT600ConnectionError"
    /\ setup.slept = <<SetupDelay, SetupDelay>>
    /\ setup.returned = "False"

\* The two-digit uppercase hexadecimal form of n, 0 <= n <= 255.
UpperHexDigits ==
    <<"0", "1", "2", "3", "4", "5", "6", "7", "8", "9",
      "A", "B", "C", "D", "E", "F">>

UpperHex2(n) == UpperHexDigits[(n \div 16) + 1] \o UpperHexDigits[(n % 16) + 1]

\* C16: for every position p in 0..100 and a known cover, set_cover_position
\* issues exactly one write whose SetMoveToLevel is the two-digit uppercase
\* hexadecimal form of p followed by "FFFF"; open_cover writes "64FFFF" and
\* close_cover "00FFFF".  (The code formats with "02x": the digits a..f are
\* written in lowercase.)
C16_CoverPositionEncoding ==
    Applied("cover") =>
        CASE eval.arg.cmd = "open_cover" -> eval.out = <<"64FFFF">>
          [] eval.arg.cmd = "close_cover" -> eval.out = <<"00FFFF">>
          [] OTHER -> eval.out = <<UpperHex2(eval.arg.position) \o "FFFF">>

\* C17: every CoverDevice the cover decoder stores is closed iff its current
\* position is 0; with a target (the first two hex characters of
\* MoveToLevel_f) it is opening iff current < target and closing iff
\* current > target, never both; without a target both are absent.
C17_CoverMovement ==
    Applied("cover_row") /\ eval.out.stored =>
        LET current == eval.arg.current
            move == eval.arg.move
            dev == eval.out
        IN  /\ dev.is_closed <=> (current.present /\ current.value = 0)
            /\ IF HasTarget(move)
               THEN LET target == ParseHex2(move.value) IN
                    /\ dev.is_opening = "True" <=> current.value < target
                    /\ dev.is_closing = "True" <=> current.value > target
                    /\ dev.is_opening = "False" <=> current.value >= target
                    /\ dev.is_closing = "False" <=> current.value <= target
                    /\ ~(dev.is_opening = "True" /\ dev.is_closing = "True")
               ELSE dev.is_opening = None /\ dev.is_closing = None

\* A cover at 80 with target "64" (100) is stored as opening.
C17_Witness ==
    /\ Applied("cover_row") /\ eval.out.stored
    /\ eval.arg.current = Field(80)
    /\ eval.arg.move = Field(<<"6", "4", "F", "F", "F", "F">>)
    /\ eval.out.is_opening = "True" /\ eval.out.is_closing = "False"
    /\ ~eval.out.is_closed

\* Every key of the map is the unique_id of its record.
KeyedById(m) == \A k \in DOMAIN m : m[k].unique_id = k

\* The maps named in names have no key in common.
NoSharedId(m, names) ==
    \A i, j \in 1..Len(names) :
        i # j => (DOMAIN m[names[i]]) \cap (DOMAIN m[names[j]]) = {}

C19_DialectA ==
    Applied("climate_row") /\ "sIT600TH" \in eval.arg.blocks =>
        LET hold == eval.arg.hold
            running == eval.arg.running
            dev == eval.out
        IN  /\ dev.stored
            /\ hold = 7 =>
                  /\ dev.hvac_mode = "off" /\ dev.hvac_action = "off"
                  /\ dev.preset_mode = "Off"
            /\ hold = 2 =>
                  dev.hvac_mode = "heat" /\ dev.preset_mode = "Permanent Hold"
            /\ hold \notin {2, 7} =>
                  dev.hvac_mode = "auto" /\ dev.preset_mode = "Follow Schedule"
            /\ hold # 7 =>
                  dev.hvac_action =
                      IF \E k \in 0..running : running = 2 * k
                      THEN "idle" ELSE "heating"

\* A Dialect A row with hold 2 and an odd running state is stored as
\* heating under Permanent Hold.
C19_Witness ==
    /\ Applied("climate_row") /\ eval.arg.blocks = {"sIT600TH"}
    /\ eval.arg.hold = 2 /\ eval.arg.running = 33
    /\ eval.out.hvac_mode = "heat" /\ eval.out.hvac_action = "heating"
    /\ eval.out.preset_mode = "Permanent Hold"

\* C20: a Dialect B thermostat (sTherS, sComm and sFanS present, no
\* sIT600TH) decodes, for every system mode, hold code and running state, to
\* mode heat for system mode 4, cool for 3, auto otherwise; its action is off
\* if hold is 7, else idle if running is 0, else heating if heating (system
\* mode 4) and running is 33, heat-idle if heating otherwise, cooling if not
\* heating and running is 66, cool-idle otherwise.
C20_DialectB ==
    /\ Applied("climate_row")
    /\ {"sTherS", "sComm", "sFanS"} \subseteq eval.arg.blocks
    /\ "sIT600TH" \notin eval.arg.blocks
    => LET mode == eval.arg.system_mode
           hold == eval.arg.hold
           running == eval.arg.running
           dev == eval.out
       IN  /\ dev.stored
           /\ dev.hvac_mode = CASE mode = 4 -> "heat"
                                [] mode = 3 -> "cool"
                                [] OTHER -> "auto"
           /\ dev.hvac_action =
                 CASE hold = 7 -> "off"
                   [] hold # 7 /\ running = 0 -> "idle"
                   [] hold # 7 /\ running = 33 /\ mode = 4 -> "heating"
                   [] hold # 7 /\ running \notin {0, 33} /\ mode = 4 ->
                          CURRENT_HVAC_HEAT_IDLE
                   [] hold # 7 /\ running = 66 /\ mode # 4 -> "cooling"
                   [] hold # 7 /\ running \notin {0, 66} /\ mode # 4 ->
                          CURRENT_HVAC_COOL_IDLE

\* A Dialect B row in system mode 3 with running state 66 is stored as
\* cooling in mode cool.
C20_Witness ==
    /\ Applied("climate_row")
    /\ eval.arg.blocks = {"sTherS", "sComm", "sFanS"}
    /\ eval.arg.system_mode = 3 /\ eval.arg.hold = 0
    /\ eval.arg.running = 66
    /\ eval.out.hvac_mode = "cool" /\ eval.out.hvac_action = "cooling"

\* |a - b|
Distance(a, b) == IF a >= b THEN a - b ELSE b - a

\* C21: set_climate_device_temperature writes a hundredths value that is a
\* multiple of 50 and the multiple of 0.5 degree nearest to the setpoint; a
\* setpoint halfway between two multiples (x.25, x.75) goes to the one whose
\* double is even, so 1.25 gives 1.0 and 1.75 gives 2.0.
C21_SetpointRounding ==
    Applied("setpoint") =>
        LET x == eval.arg
            value == eval.out
        IN  /\ value % 50 = 0
            /\ Distance(value, x) <= 25
            /\ Distance(value, x) = 25 => (value \div 50) % 2 = 0
            /\ x = 125 => value = 100
            /\ x = 175 => value = 200

\* 1.25 has been encoded as 100.
C21_Witness ==
    Applied("setpoint") /\ eval.arg = 125 /\ eval.out = 100

\* C22: in the user step of the config flow gateway.close() is called
\* exactly once after connect(), whatever its outcome: success, connection
\* error, authentication error, abort as already configured, any other
\* error.
C22_FlowClosesOnce ==
    /\ closes <= 1
    /\ flow.phase = "connect" => closes = 0
    /\ flow.phase = "over" => closes = 1
    /\ closes = 1 /\ session.ref = "own" => "own" \in session.closed

\* The flow was aborted as already configured and the gateway closed.
C22_Witness ==
    flow.phase = "over" /\ flow.outcome = "AbortFlow" /\ closes = 1

\* Poll t takes a step of its category loop on category c.
PollsCategory(t, c) ==
    /\ pc[t] = "loop"
    /\ Category(t) = c
    /\ idx'[t] # idx[t] \/ pc'[t] # pc[t]

\* C23: with several bulk polls running on one client, a poll whose
\* response for a category arrived earlier never overwrites what a response
\* that arrived later has stored in the maps of that category.
C23_LaterResponseWins ==
    [][\A c \in DeviceCats :
          (\E t \in polls.older[c] : PollsCategory(t, c)) => maps' = maps]_vars

ModelMatchesBlocks(row) ==
    (row.model = "FC600") = (DecodeDialect(row.blocks) = "B")

\* C25: for every thermostat record, the dialect of the payload that
\* set_climate_device_preset, set_climate_device_mode and
\* set_climate_device_temperature write is the dialect by which the record
\* was decoded.
C25_CommandDialect ==
    Applied("thermostat") =>
        PayloadDialect(eval.out.payload) = DecodeDialect(eval.arg.row.blocks)

\* C26: for every thermostat record and every mode m of its hvac_modes, the
\* code set_climate_device_mode(m) writes is decoded at the next poll as
\* hvac_mode m.
C26_ModeRoundTrip ==
    (/\ Applied("thermostat")
     /\ eval.arg.cmd = "set_climate_device_mode"
     /\ ModelMatchesBlocks(eval.arg.row)
     /\ eval.arg.param.mode \in eval.out.device.hvac_modes)
        => eval.out.shown.hvac_mode = eval.arg.param.mode

\* C27: for a Dialect B thermostat in heat, cool or auto mode, the value
\* set_climate_device_temperature writes is the target temperature the next
\* poll shows.
C27_SetpointShown ==
    (/\ Applied("thermostat")
     /\ eval.arg.cmd = "set_climate_device_temperature"
     /\ eval.arg.row.model = "FC600"
     /\ DecodeDialect(eval.arg.row.blocks) = "B")
        => eval.out.shown.target_temperature
              = SetpointValue(eval.arg.param.setpoint)

\* Task t takes a step of a command: it calls one, or goes on in one.
CommandStep(t) ==
    /\ call[t].op \in Commands \/ call'[t].op \in Commands
    /\ <<pc[t], site[t], call[t], result[t]>>'
          # <<pc[t], site[t], call[t], result[t]>>

\* C28: no step of a command method changes a device-state map or the
\* gateway record, whether the command returns early, its write succeeds or
\* its write fails.
C28_CommandsKeepState ==
    [][\A t \in Tasks : CommandStep(t) => store' = store]_vars

\* A cover command for a device of the cover map has written and returned.
C28_Witness ==
    /\ call["t1"].op = "set_cover_position"
    /\ pc["t1"] = "done" /\ result["t1"] = None
    /\ Get(maps["cover_devices"], call["t1"].device_id) # NoDevice

\* The session the client created for itself, if any, has been closed.
OwnSessionClosed == session.ref = "own" => "own" \in session.closed

\* C29: every session the client created is closed by the host routines:
\* when the setup has given up after its last failed attempt the gateway is
\* closed by the time it returns False, and when an entry has been unloaded
\* the gateway has been closed once and is no longer registered.
C29_SessionsClosed ==
    /\ setup.phase = "over" /\ setup.returned = "False" => OwnSessionClosed
    /\ setup.phase = "unloaded" =>
          closes = 1 /\ ~setup.registered /\ OwnSessionClosed

\* The thresholds of the curve a model is converted by, as a set.
CurveOf(model) ==
    LET curve == IF model \in {"SW600", "OS600"} THEN "window"
                 ELSE IF model \in {"RE600", "RE10B"} THEN "energy_meter"
                 ELSE "door"
        thresholds == BATTERY_VOLTAGE_THRESHOLDS(curve)
    IN  {thresholds[i] : i \in DOMAIN thresholds}

====
